---- MODULE Spec2Model ----
(***************************************************************************)
(* Verification model of the avatar animation pipeline of Hollings/wendy:  *)
(* TypingController (typing-controller.js), ChatManager (chat-manager.js), *)
(* StateMachine (states.js) and the orchestrator (main.js).                *)
(*                                                                         *)
(* Lengths are in units of 0.001 scene units, tick deltas in milliseconds. *)
(* The arm geometry is reduced to the one quantity the controller's        *)
(* control flow reads: target.distanceTo(goal) of each arm.                *)
(***************************************************************************)
EXTENDS Integers, Sequences, FiniteSets, TLC

(***************************************************************************)
(* Bounds of the model                                                     *)
(***************************************************************************)
MaxEnq == 3
MaxOps == 2

(***************************************************************************)
(* Program constants                                                       *)
(***************************************************************************)
HOVER_HEIGHT == 60
PRESS_HEIGHT == 10
ARM_SPEED == 4
KEYPRESS_THRESHOLD == 15
ARM_EPSILON == 1
MAX_DELTA == 100
MAX_MESSAGES == 50
\* the goal moves by this much between the hover and the press position
PressTravel == HOVER_HEIGHT - PRESS_HEIGHT

(***************************************************************************)
(* Input sets                                                              *)
(***************************************************************************)
\* characters: a left-hand key, a right-hand key, a character with no key
Chars == {"a", "j", "#"}
\* milliseconds between two logic ticks (0: two ticks in the same millisecond)
TickDeltas == {0, 16, 250}
\* distance from an arm's position to a newly set goal
KeyTravels == {10, 120}

VARIABLES
    \* TypingController
    keypressQueue, currentKeypress, leftArmDist, rightArmDist,
    leftArmLocked, rightArmLocked,
    \* history of the controller: keystrokes enqueued, onKeyPressed calls,
    \* and the numbers of goal overrides, lock changes and clearQueue calls
    nextKeyId, pressed, moves, locks, clears,
    \* ChatManager
    typing, currentChannelId, channels, sessionCount, lastProcessedSession,
    pendingMessage,
    \* suspended typeMessage() calls (each is asleep in one of its awaits)
    loops,
    \* Date.now(), in milliseconds since the page was loaded
    clock,
    \* history of the ChatManager: typing sessions started, sessions ended
    \* by abortTyping, sessions ended by finishTyping, onTypingStart and
    \* onTypingEnd calls, receiveMessages calls made by the log specification
    nextSid, abortedSids, finishedSids, starts, ends, receives,
    \* StateMachine
    state, stateData, pendingSendMessage, idleTimeout,
    \* orchestrator
    currentState, pendingTransitions, isRushingTyping, currentTypingMode,
    typingModeInterval, isTrackingMouse,
    \* Monitor.overlay, by its type ("none" for null)
    overlay,
    \* isInInitialLoadPeriod(): less than the grace period since page load
    inInitialLoadPeriod,
    \* pending timers of the orchestrator: setInterval callbacks, the
    \* burst's return-to-rest timeouts, the mouse choreographies' timeouts,
    \* the replay timeouts of processPendingTransitions
    intervals, nextIntervalId, burstEnds, choreos, replayTimers,
    \* history of the orchestrator: stream events delivered, transitions
    \* deferred, and the replayed transition applied last with its age
    nEvents, nextDeferId, lastReplay,
    \* the stream: ids of the tool uses whose result has not arrived yet, as
    \* far as the send_message specification keeps track of them
    openTools,
    \* frames drawn by animate(); stands for what a render tick writes: head
    \* rotation, light intensity, camera, the rendered image
    frames,
    \* the arm last posed by solveTwoBoneIK: the arm, the target and the
    \* rotations the solver gave to its shoulder and elbow joints
    joints,
    \* Monitor.typing: the message being typed on the screen (showing: not
    \* null), its full text and the text typed so far
    monitorTyping

tcVars == <<keypressQueue, currentKeypress, leftArmDist, rightArmDist,
            leftArmLocked, rightArmLocked, nextKeyId, pressed, moves, locks, clears>>

cmVars == <<typing, currentChannelId, channels, sessionCount, lastProcessedSession,
            pendingMessage,
            loops, clock, nextSid, abortedSids, finishedSids, starts, ends,
            receives>>

smVars == <<state, stateData, pendingSendMessage, idleTimeout>>

mainVars == <<currentState, pendingTransitions, isRushingTyping, currentTypingMode,
              typingModeInterval, isTrackingMouse, overlay, inInitialLoadPeriod,
              intervals, nextIntervalId,
              burstEnds, choreos, replayTimers, nEvents, nextDeferId, lastReplay,
              openTools, frames, joints, monitorTyping>>

vars == <<tcVars, cmVars, smVars, mainVars>>

(***************************************************************************)
(* The program state as one record, so that a handler is a function from   *)
(* state to state and calls compose in program order.                      *)
(***************************************************************************)
S == [keypressQueue |-> keypressQueue,
      currentKeypress |-> currentKeypress,
      leftArmDist |-> leftArmDist,
      rightArmDist |-> rightArmDist,
      leftArmLocked |-> leftArmLocked,
      rightArmLocked |-> rightArmLocked,
      nextKeyId |-> nextKeyId,
      pressed |-> pressed,
      moves |-> moves,
      locks |-> locks,
      clears |-> clears,
      typing |-> typing,
      currentChannelId |-> currentChannelId,
      channels |-> channels,
      sessionCount |-> sessionCount,
      lastProcessedSession |-> lastProcessedSession,
      loops |-> loops,
      clock |-> clock,
      nextSid |-> nextSid,
      abortedSids |-> abortedSids,
      finishedSids |-> finishedSids,
      starts |-> starts,
      ends |-> ends,
      receives |-> receives,
      pendingMessage |-> pendingMessage,
      state |-> state,
      stateData |-> stateData,
      pendingSendMessage |-> pendingSendMessage,
      idleTimeout |-> idleTimeout,
      currentState |-> currentState,
      pendingTransitions |-> pendingTransitions,
      isRushingTyping |-> isRushingTyping,
      currentTypingMode |-> currentTypingMode,
      typingModeInterval |-> typingModeInterval,
      isTrackingMouse |-> isTrackingMouse,
      overlay |-> overlay,
      inInitialLoadPeriod |-> inInitialLoadPeriod,
      intervals |-> intervals,
      nextIntervalId |-> nextIntervalId,
      burstEnds |-> burstEnds,
      choreos |-> choreos,
      replayTimers |-> replayTimers,
      nEvents |-> nEvents,
      nextDeferId |-> nextDeferId,
      openTools |-> openTools,
      frames |-> frames,
      joints |-> joints,
      monitorTyping |-> monitorTyping,
      lastReplay |-> lastReplay]

Becomes(s) ==
    /\ keypressQueue' = s.keypressQueue
    /\ currentKeypress' = s.currentKeypress
    /\ leftArmDist' = s.leftArmDist
    /\ rightArmDist' = s.rightArmDist
    /\ leftArmLocked' = s.leftArmLocked
    /\ rightArmLocked' = s.rightArmLocked
    /\ nextKeyId' = s.nextKeyId
    /\ pressed' = s.pressed
    /\ moves' = s.moves
    /\ locks' = s.locks
    /\ clears' = s.clears
    /\ typing' = s.typing
    /\ currentChannelId' = s.currentChannelId
    /\ channels' = s.channels
    /\ sessionCount' = s.sessionCount
    /\ lastProcessedSession' = s.lastProcessedSession
    /\ loops' = s.loops
    /\ clock' = s.clock
    /\ nextSid' = s.nextSid
    /\ abortedSids' = s.abortedSids
    /\ finishedSids' = s.finishedSids
    /\ starts' = s.starts
    /\ ends' = s.ends
    /\ receives' = s.receives
    /\ pendingMessage' = s.pendingMessage
    /\ state' = s.state
    /\ stateData' = s.stateData
    /\ pendingSendMessage' = s.pendingSendMessage
    /\ idleTimeout' = s.idleTimeout
    /\ currentState' = s.currentState
    /\ pendingTransitions' = s.pendingTransitions
    /\ isRushingTyping' = s.isRushingTyping
    /\ currentTypingMode' = s.currentTypingMode
    /\ typingModeInterval' = s.typingModeInterval
    /\ isTrackingMouse' = s.isTrackingMouse
    /\ overlay' = s.overlay
    /\ inInitialLoadPeriod' = s.inInitialLoadPeriod
    /\ intervals' = s.intervals
    /\ nextIntervalId' = s.nextIntervalId
    /\ burstEnds' = s.burstEnds
    /\ choreos' = s.choreos
    /\ replayTimers' = s.replayTimers
    /\ nEvents' = s.nEvents
    /\ nextDeferId' = s.nextDeferId
    /\ openTools' = s.openTools
    /\ frames' = s.frames
    /\ joints' = s.joints
    /\ monitorTyping' = s.monitorTyping
    /\ lastReplay' = s.lastReplay

(***************************************************************************)
(* Keyboard                                                                *)
(***************************************************************************)
KeyboardKeys == {"a", "j", "h", "i", " "}

\* Keyboard.getKeyPosition: an unknown character resolves to the space bar
KeyOf(char) == IF char \in KeyboardKeys THEN char ELSE " "

\* Keyboard.getKeyPosition: isLeftHand = worldPos.x < 0
IsLeftHand(char) == KeyOf(char) = "a"

(* ik.js: the two-bone solver                                              *)
(*                                                                         *)
(* Lengths are whole multiples of the solver's margin of 0.001.  A vector  *)
(* of the bend plane is kept by its component along the direction to the   *)
(* target, the square of its component across it and the side of that      *)
(* component (1 towards the pole, -1 away from it), all on the scale 2d of *)
(* the clamped distance d, so that the law of cosines stays in integers.   *)
(***************************************************************************)
IK_MARGIN == 1

Abs(x) == IF x < 0 THEN -x ELSE x
Sgn(x) == IF x < 0 THEN -1 ELSE IF x > 0 THEN 1 ELSE 0

\* THREE.MathUtils.clamp
Clamp(x, lo, hi) == IF x < lo THEN lo ELSE IF x > hi THEN hi ELSE x

RECURSIVE GCD(_, _)
GCD(a, b) == IF b = 0 THEN a ELSE GCD(b, a % b)

ZeroVector == [along |-> 0, across2 |-> 0, side |-> 0]

\* Vector3.normalize: the direction of a vector, the same for the vectors
\* that differ by a positive factor; the zero vector stays the zero vector
Normalize(v) ==
    IF v.across2 = 0
    THEN [along |-> Sgn(v.along), across2 |-> 0, side |-> 0]
    ELSE LET g == GCD(v.along * v.along, v.across2)
         IN  [along |-> Sgn(v.along) * ((v.along * v.along) \div g),
              across2 |-> v.across2 \div g,
              side |-> v.side]

\* Quaternion.setFromUnitVectors(_defaultDir, v), v in the frame given by
\* the direction to the target and by the rotation of the parent joint
NoRotation == [dir |-> "none", parent |-> ZeroVector, to |-> ZeroVector]
SetFromUnitVectors(dir, parent, v) ==
    IF v = ZeroVector THEN NoRotation ELSE [dir |-> dir, parent |-> parent, to |-> v]

MinReach(arm) == Abs(arm.upperLength - arm.forearmLength) + IK_MARGIN
MaxReach(arm) == arm.upperLength + arm.forearmLength - IK_MARGIN

\* solveTwoBoneIK, the elbow position: shoulder -> elbow on the scale 2d
ElbowPos(arm, dist) ==
    LET d == Clamp(dist, MinReach(arm), MaxReach(arm))
        cosNum == arm.upperLength * arm.upperLength + d * d
                      - arm.forearmLength * arm.forearmLength
        cosDen == 2 * arm.upperLength * d
        cos == Clamp(cosNum, -cosDen, cosDen)
    IN  IF dist = 0 THEN ZeroVector
        ELSE [along |-> cos, across2 |-> cosDen * cosDen - cos * cos, side |-> 1]

\* solveTwoBoneIK, elbow -> wrist: targetWorld - elbowPos on the scale 2d
ElbowToWrist(arm, dist) ==
    LET d == Clamp(dist, MinReach(arm), MaxReach(arm))
        e == ElbowPos(arm, dist)
    IN  IF dist = 0 THEN ZeroVector
        ELSE [along |-> 2 * d * dist - e.along, across2 |-> e.across2,
              side |-> IF e.across2 = 0 THEN 0 ELSE -1]

\* solveTwoBoneIK: the rotations given to the shoulder and to the elbow
SolveTwoBoneIK(arm, target) ==
    LET toElbow == Normalize(ElbowPos(arm, target.dist))
        toWrist == Normalize(ElbowToWrist(arm, target.dist))
        dir == IF target.dist = 0 THEN "none" ELSE target.dir
    IN  [arm |-> arm, target |-> target,
         shoulder |-> SetFromUnitVectors(dir, ZeroVector, toElbow),
         elbow |-> SetFromUnitVectors(dir, toElbow, toWrist)]

\* the arm as built: no rotation on either joint
RestPose ==
    [arm |-> [upperLength |-> 0, forearmLength |-> 0],
     target |-> [dir |-> "none", dist |-> 0],
     shoulder |-> NoRotation, elbow |-> NoRotation]

(***************************************************************************)
(* TypingController                                                        *)
(***************************************************************************)
\* Monitor.typing = null
NoMonitorTyping == [showing |-> FALSE, fullText |-> <<>>, visibleText |-> <<>>]

\* Monitor.startTyping
MonitorStartTyping(s, fullText) ==
    [s EXCEPT !.monitorTyping =
                  [showing |-> TRUE, fullText |-> fullText, visibleText |-> <<>>]]

\* Monitor.typeChar
MonitorTypeChar(s, char) ==
    IF ~s.monitorTyping.showing
    THEN s
    ELSE [s EXCEPT !.monitorTyping.visibleText = Append(@, char)]

\* Monitor.finishTyping, and the assignment monitor.typing = null of
\* ChatManager.abortTyping
MonitorClearTyping(s) == [s EXCEPT !.monitorTyping = NoMonitorTyping]

\* the onKeyPressed callback: the character goes to the monitor while the
\* monitor is typing; the call is recorded in pressed
OnKeyPressed(s, kp) ==
    MonitorTypeChar([s EXCEPT !.pressed = Append(@, <<kp.id, kp.char>>)], kp.char)

NoKeypress == [char |-> "", isLeftHand |-> FALSE, phase |-> "none", id |-> 0]

\* typeCharacter as it would be if a character with no key were dropped
TypeCharacterDropsUnknown(s, char) ==
    IF char \in KeyboardKeys
    THEN [s EXCEPT !.keypressQueue =
                       Append(@, [char |-> char, isLeftHand |-> IsLeftHand(char),
                                  phase |-> "hover", id |-> s.nextKeyId]),
                   !.nextKeyId = @ + 1]
    ELSE s

\* TypingController.typeCharacter
TypeCharacter(s, char) ==
    [s EXCEPT !.keypressQueue =
                  Append(@, [char |-> char, isLeftHand |-> IsLeftHand(char),
                             phase |-> "hover", id |-> s.nextKeyId]),
              !.nextKeyId = @ + 1]

\* TypingController._updateArmPosition, on the distance to the goal
UpdateArmPosition(dist, maxMove) ==
    IF dist > ARM_EPSILON
    THEN IF dist <= maxMove THEN 0 ELSE dist - maxMove
    ELSE dist

HandLocked(s, kp) ==
    \/ kp.isLeftHand /\ s.leftArmLocked
    \/ ~kp.isLeftHand /\ s.rightArmLocked

SetArmDist(s, isLeft, d) ==
    IF isLeft THEN [s EXCEPT !.leftArmDist = d] ELSE [s EXCEPT !.rightArmDist = d]

ArmDist(s, isLeft) == IF isLeft THEN s.leftArmDist ELSE s.rightArmDist

\* a bug the locked-hand claims must notice: the lock flags are not consulted
RECURSIVE ProcessKeypressQueueNoLock(_, _)
ProcessKeypressQueueNoLock(s, travel) ==
    IF s.currentKeypress # NoKeypress \/ s.keypressQueue = <<>>
    THEN s
    ELSE LET nextKeypress == Head(s.keypressQueue)
             s1 == [s EXCEPT !.keypressQueue = Tail(@)]
         IN  SetArmDist([s1 EXCEPT !.currentKeypress = nextKeypress],
                        nextKeypress.isLeftHand, travel)

\* a bug the ordering claims must notice: the newest keystroke is taken first
RECURSIVE ProcessKeypressQueueLIFO(_, _)
ProcessKeypressQueueLIFO(s, travel) ==
    IF s.currentKeypress # NoKeypress \/ s.keypressQueue = <<>>
    THEN s
    ELSE LET n == Len(s.keypressQueue)
             nextKeypress == s.keypressQueue[n]
             s1 == [s EXCEPT !.keypressQueue = SubSeq(@, 1, n - 1)]
         IN  IF HandLocked(s1, nextKeypress)
             THEN ProcessKeypressQueueLIFO(s1, travel)
             ELSE SetArmDist([s1 EXCEPT !.currentKeypress = nextKeypress],
                             nextKeypress.isLeftHand, travel)

\* TypingController._processKeypressQueue; travel is the distance from the
\* arm to the hover position of the key that becomes active
RECURSIVE ProcessKeypressQueue(_, _)
ProcessKeypressQueue(s, travel) ==
    IF s.currentKeypress # NoKeypress \/ s.keypressQueue = <<>>
    THEN s
    ELSE LET nextKeypress == Head(s.keypressQueue)
             s1 == [s EXCEPT !.keypressQueue = Tail(@)]
         IN  IF HandLocked(s1, nextKeypress)
             THEN ProcessKeypressQueue(s1, travel)
             ELSE SetArmDist([s1 EXCEPT !.currentKeypress = nextKeypress],
                             nextKeypress.isLeftHand, travel)

\* a bug the phase claims must notice: the callback fires on reaching hover
UpdateCurrentKeypressEarly(s) ==
    IF s.currentKeypress = NoKeypress
    THEN s
    ELSE LET kp == s.currentKeypress
             dist == ArmDist(s, kp.isLeftHand)
         IN  IF dist < KEYPRESS_THRESHOLD
             THEN IF kp.phase = "hover"
                  THEN SetArmDist([s EXCEPT !.currentKeypress.phase = "lift",
                                            !.pressed = Append(@, <<kp.id, kp.char>>)],
                                  kp.isLeftHand, dist + PressTravel)
                  ELSE [s EXCEPT !.currentKeypress = NoKeypress]
             ELSE s

\* TypingController._updateCurrentKeypress
UpdateCurrentKeypress(s) ==
    IF s.currentKeypress = NoKeypress
    THEN s
    ELSE LET kp == s.currentKeypress
             dist == ArmDist(s, kp.isLeftHand)
         IN  IF dist < KEYPRESS_THRESHOLD
             THEN CASE kp.phase = "hover" ->
                         SetArmDist([s EXCEPT !.currentKeypress.phase = "press"],
                                    kp.isLeftHand, dist + PressTravel)
                    [] kp.phase = "press" ->
                         SetArmDist(OnKeyPressed([s EXCEPT !.currentKeypress.phase = "lift"],
                                                 kp),
                                    kp.isLeftHand, dist + PressTravel)
                    [] kp.phase = "lift" ->
                         [s EXCEPT !.currentKeypress = NoKeypress]
                    [] OTHER -> s
             ELSE s

\* a bug the completion claim must notice: the arm never snaps onto its goal
TCUpdateNoSnap(s, delta, travel) ==
    LET maxMove == ARM_SPEED * delta
        crawl(d) == IF d > maxMove THEN d - maxMove ELSE d
        s1 == [s EXCEPT !.leftArmDist = crawl(@), !.rightArmDist = crawl(@)]
    IN  UpdateCurrentKeypress(ProcessKeypressQueue(s1, travel))

\* TypingController.update
TCUpdate(s, delta, travel) ==
    LET maxMove == ARM_SPEED * delta
        s1 == [s EXCEPT !.leftArmDist = UpdateArmPosition(@, maxMove),
                        !.rightArmDist = UpdateArmPosition(@, maxMove)]
    IN  UpdateCurrentKeypress(ProcessKeypressQueue(s1, travel))

\* updateLogic caps the delta it hands to update()
CappedDelta(delta) == IF delta < MAX_DELTA THEN delta ELSE MAX_DELTA

\* TypingController.returnToRest
ReturnToRest(s, travelLeft, travelRight) ==
    [s EXCEPT !.leftArmDist = travelLeft, !.rightArmDist = travelRight]

\* TypingController.isTyping
TCIsTyping(s) == s.currentKeypress # NoKeypress \/ Len(s.keypressQueue) > 0

\* a bug the discard claims must notice: the keystroke in flight survives
ClearQueueKeepCurrent(s) == [s EXCEPT !.keypressQueue = <<>>]

\* TypingController.clearQueue
ClearQueue(s) == [s EXCEPT !.keypressQueue = <<>>, !.currentKeypress = NoKeypress]

\* TypingController.moveLeftArmTo
MoveLeftArmTo(s, travel) == [s EXCEPT !.leftArmDist = travel]

\* TypingController.moveRightArmTo
MoveRightArmTo(s, travel) == [s EXCEPT !.rightArmDist = travel]

(***************************************************************************)
(* Orchestrator: the TypingMode flag and the callbacks handed to the       *)
(* ChatManager.  typingEnabled keeps its initial value, true.  A travel    *)
(* argument is the distance from an arm to a goal the call sets.           *)
(***************************************************************************)
NoInterval == 0

\* clearInterval
ClearInterval(s, id) ==
    [s EXCEPT !.intervals = [k \in (DOMAIN @) \ {id} |-> @[k]]]

\* returnArmsToRest
ReturnArmsToRest(s, travel) == ReturnToRest(s, travel, travel)

\* stopCurrentTypingMode
StopCurrentTypingMode(s, travel) ==
    LET s1 == IF s.typingModeInterval # NoInterval
              THEN [ClearInterval(s, s.typingModeInterval)
                        EXCEPT !.typingModeInterval = NoInterval]
              ELSE s
    IN  IF s1.currentTypingMode # "none"
        THEN ReturnArmsToRest([s1 EXCEPT !.currentTypingMode = "none"], travel)
        ELSE s1

\* typeCharacter of the orchestrator, and the onTypeChar callback
TypeChar(s, char) == TypeCharacter(s, char)

\* the onTypingStart callback
OnTypingStart(s, travel) ==
    LET s1 == IF s.currentTypingMode # "none"
              THEN StopCurrentTypingMode(s, travel)
              ELSE s
    IN  [s1 EXCEPT !.currentTypingMode = "message", !.starts = @ + 1]

\* the onTypingEnd callback
OnTypingEnd(s, travel) ==
    ReturnToRest([s EXCEPT !.currentTypingMode = "none", !.ends = @ + 1],
                 travel, travel)

(***************************************************************************)
(* ChatManager                                                             *)
(***************************************************************************)
NoChannel == ""
NoTyping == [active |-> FALSE, text |-> <<>>, index |-> 0, aborted |-> FALSE,
             rushed |-> FALSE, sid |-> 0]
EmptyChannel == [messages |-> {}, order |-> <<>>]

\* ChatManager.getChannel: the channel's data, created when missing
GetChannel(s, channelId) ==
    IF channelId \in DOMAIN s.channels
    THEN s
    ELSE [s EXCEPT !.channels =
              [c \in (DOMAIN @) \cup {channelId} |->
                   IF c \in DOMAIN @ THEN @[c] ELSE EmptyChannel]]

\* ChatManager.setCurrentChannel
SetCurrentChannel(s, channelId) ==
    IF s.currentChannelId = channelId
    THEN s
    ELSE GetChannel([s EXCEPT !.currentChannelId = channelId], channelId)

\* `wendy-${Date.now()}`
WendyId(s) == [author |-> "wendy", t |-> s.clock]

\* Map.set followed by order.push, as addWendyMessage and finishTyping do
PushWendyMessage(s, content) ==
    LET s1 == GetChannel(s, s.currentChannelId)
        msg == [id |-> WendyId(s), author |-> "Wendy", content |-> content]
    IN  [s1 EXCEPT !.channels[s.currentChannelId] =
             [messages |-> {m \in @.messages : m.id # msg.id} \cup {msg},
              order |-> Append(@.order, msg.id)]]

\* ChatManager.addWendyMessage
AddWendyMessage(s, content) ==
    IF s.currentChannelId = NoChannel THEN s ELSE PushWendyMessage(s, content)

\* a bug the callback claims must notice: no early return without a session
FinishTypingNoGuard(s, travel) ==
    LET text == s.typing.text
        s1 == MonitorClearTyping([s EXCEPT !.typing = NoTyping,
                                           !.finishedSids = @ \cup {s.typing.sid}])
        s2 == IF s1.currentChannelId # NoChannel
              THEN PushWendyMessage(s1, text)
              ELSE s1
    IN  OnTypingEnd(s2, travel)

\* ChatManager.finishTyping
FinishTyping(s, travel) ==
    IF ~s.typing.active
    THEN s
    ELSE LET text == s.typing.text
             s1 == MonitorClearTyping([s EXCEPT !.typing = NoTyping,
                                                !.finishedSids = @ \cup {s.typing.sid}])
             s2 == IF s1.currentChannelId # NoChannel
                   THEN PushWendyMessage(s1, text)
                   ELSE s1
         IN  OnTypingEnd(s2, travel)

\* a bug the abort claims must notice: the session stays active
AbortTypingKeepSession(s, travel) ==
    IF ~s.typing.active
    THEN s
    ELSE OnTypingEnd([s EXCEPT !.typing.aborted = TRUE,
                               !.abortedSids = @ \cup {s.typing.sid}], travel)

\* a bug the abort claims must notice: the aborted text is committed
AbortTypingCommits(s, travel) ==
    IF ~s.typing.active
    THEN s
    ELSE FinishTyping([s EXCEPT !.typing.aborted = TRUE,
                                !.abortedSids = @ \cup {s.typing.sid}], travel)

\* a bug the abort claims must notice: no early return without a session
AbortTypingNoGuard(s, travel) ==
    OnTypingEnd([s EXCEPT !.typing = NoTyping,
                          !.abortedSids = @ \cup {s.typing.sid}], travel)

\* ChatManager.abortTyping: the flag is set on the session object, which
\* is then replaced by a fresh idle one
AbortTyping(s, travel) ==
    IF ~s.typing.active
    THEN s
    ELSE LET s1 == [s EXCEPT !.typing.aborted = TRUE,
                             !.abortedSids = @ \cup {s.typing.sid}]
             s2 == [MonitorClearTyping(s1) EXCEPT !.typing = NoTyping]
         IN  OnTypingEnd(s2, travel)

\* ChatManager.isTyping
IsTyping(s) == s.typing.active

\* one pass of the body of typeMessage's for loop, for its index i (from 0):
\* the abort flag of the current session object is read, then the index is
\* written and the per-character callback is called
LoopBody(s, sid, i) ==
    LET text == s.loops[sid].text
    IN  IF s.typing.aborted
        THEN [s EXCEPT !.loops[sid].pc = "tail"]
        ELSE TypeChar([s EXCEPT !.typing.index = i,
                                !.loops[sid].i = i,
                                !.loops[sid].pc = "char"],
                      text[i + 1])

\* ChatManager.typeMessage past its guards, up to its first await: the
\* session object, the start callback, the first pass of the loop
StartTyping(s, text, travel) ==
    LET sid == s.nextSid
        s1 == [s EXCEPT !.typing = [active |-> TRUE, text |-> text, index |-> 0,
                                    aborted |-> FALSE, rushed |-> FALSE,
                                    sid |-> sid],
                        !.nextSid = @ + 1]
        s2 == [MonitorStartTyping(OnTypingStart(s1, travel), text) EXCEPT !.loops =
                   [k \in (DOMAIN @) \cup {sid} |->
                        IF k = sid THEN [text |-> text, i |-> 0, pc |-> "char"]
                                   ELSE @[k]]]
    IN  LoopBody(s2, sid, 0)

\* a bug the session claims must notice: a second session replaces the
\* active one
TypeMessageNoGuard(s, text, travel) ==
    IF text = <<>> THEN s ELSE StartTyping(s, text, travel)

\* ChatManager.typeMessage up to its first await
TypeMessage(s, text, travel) ==
    IF s.typing.active \/ text = <<>>
    THEN s
    ELSE StartTyping(s, text, travel)

\* ChatManager.typeMessage resumed after one of its awaits: after
\* sleep(charDelay) the loop goes on or ends, after sleep(300) the call
\* finishes the session and returns
ResumeTypeMessage(s, sid, travel) ==
    LET l == s.loops[sid]
    IN  IF l.pc = "char"
        THEN IF l.i + 1 < Len(l.text)
             THEN LoopBody(s, sid, l.i + 1)
             ELSE [s EXCEPT !.loops[sid].pc = "tail"]
        ELSE FinishTyping([s EXCEPT !.loops = [k \in (DOMAIN @) \ {sid} |-> @[k]]],
                          travel)

\* ChatManager.onSessionStart
OnSessionStart(s) == [s EXCEPT !.sessionCount = @ + 1]

\* ChatManager.onSessionEnd
OnSessionEnd(s) == [s EXCEPT !.lastProcessedSession = s.sessionCount]

\* ChatManager.isInitialLoad
IsInitialLoad(s) == s.lastProcessedSession = -1

\* ChatManager.rushTyping
RushTyping(s) == IF s.typing.active THEN [s EXCEPT !.typing.rushed = TRUE] ELSE s

\* ChatManager.isTypingComplete: every character of the session has been
\* handed to the per-character callback
IsTypingComplete(s) ==
    s.typing.active /\ s.typing.index + 1 >= Len(s.typing.text)

\* content.slice(0, 20)
Slice20(content) ==
    SubSeq(content, 1, IF Len(content) < 20 THEN Len(content) ELSE 20)

\* msg.message_id || `${msg.author}-${msg.timestamp}-${msg.content?.slice(0, 20)}`
\* (a message without message_id, or with message_id 0, gets the second)
ReceivedId(msg) ==
    IF "message_id" \in DOMAIN msg /\ msg.message_id # 0
    THEN [message_id |-> msg.message_id]
    ELSE [author |-> msg.author, t |-> msg.timestamp, c |-> Slice20(msg.content)]

\* the for loop of ChatManager.receiveMessages over a channel's data
RECURSIVE MergeMessages(_, _)
MergeMessages(channel, messages) ==
    IF messages = <<>>
    THEN channel
    ELSE LET msg == Head(messages)
             id == ReceivedId(msg)
         IN  IF \E m \in channel.messages : m.id = id
             THEN MergeMessages(channel, Tail(messages))
             ELSE MergeMessages(
                      [messages |-> channel.messages \cup
                                      {[id |-> id, author |-> msg.author,
                                        content |-> msg.content]},
                       order |-> Append(channel.order, id)],
                      Tail(messages))

\* the while loop of ChatManager.receiveMessages
RECURSIVE TrimMessages(_)
TrimMessages(channel) ==
    IF Len(channel.order) > MAX_MESSAGES
    THEN LET oldId == Head(channel.order)
         IN  TrimMessages([messages |-> {m \in channel.messages : m.id # oldId},
                           order |-> Tail(channel.order)])
    ELSE channel

\* ChatManager.receiveMessages
ReceiveMessages(s, channelId, messages) ==
    LET s1 == GetChannel(s, channelId)
    IN  [s1 EXCEPT !.channels[channelId] = TrimMessages(MergeMessages(@, messages))]

NoPendingMessage == [channelId |-> NoChannel, content |-> <<>>]

\* ChatManager.queueWendyMessage
QueueWendyMessage(s, channelId, content) ==
    IF content = <<>>
    THEN s
    ELSE [s EXCEPT !.pendingMessage = [channelId |-> channelId, content |-> content]]

\* ChatManager.reset
Reset(s, travel) ==
    [AbortTyping(s, travel) EXCEPT !.pendingMessage = NoPendingMessage,
                                   !.sessionCount = 0,
                                   !.lastProcessedSession = -1]

(***************************************************************************)
(* Orchestrator: random typing, typing bursts, mouse choreographies        *)
(***************************************************************************)
\* setInterval: a new interval, whose id becomes typingModeInterval
SetTypingModeInterval(s, kind, numKeys) ==
    LET id == s.nextIntervalId
    IN  [s EXCEPT !.intervals =
                      [k \in (DOMAIN @) \cup {id} |->
                           IF k = id THEN [kind |-> kind, keysTyped |-> 0,
                                           numKeys |-> numKeys]
                                     ELSE @[k]],
                  !.nextIntervalId = @ + 1,
                  !.typingModeInterval = id]

\* startRandomTyping
StartRandomTyping(s) ==
    IF s.inInitialLoadPeriod \/ s.currentTypingMode # "none"
    THEN s
    ELSE SetTypingModeInterval([s EXCEPT !.currentTypingMode = "random"], "random", 0)

\* stopRandomTyping
StopRandomTyping(s, travel) ==
    IF s.currentTypingMode = "random" THEN StopCurrentTypingMode(s, travel) ELSE s

\* doTypingBurst
DoTypingBurst(s, numKeys) ==
    IF s.inInitialLoadPeriod \/ s.currentTypingMode # "none"
    THEN s
    ELSE SetTypingModeInterval([s EXCEPT !.currentTypingMode = "burst"], "burst", numKeys)

\* the interval callbacks of startRandomTyping and doTypingBurst; the
\* safety check clears the interval typingModeInterval names at that time
IntervalCallback(s, id, char) ==
    LET iv == s.intervals[id]
        cleared == [ClearInterval(s, s.typingModeInterval)
                        EXCEPT !.typingModeInterval = NoInterval]
    IN  IF iv.kind = "random"
        THEN IF s.currentTypingMode # "random" THEN cleared ELSE TypeChar(s, char)
        ELSE IF s.currentTypingMode # "burst"
             THEN cleared
             ELSE IF iv.keysTyped >= iv.numKeys
                  THEN [cleared EXCEPT !.burstEnds = @ + 1]
                  ELSE [TypeChar(s, char) EXCEPT !.intervals[id].keysTyped = @ + 1]

\* the timeout set by a finished burst
BurstEndCallback(s, travel) ==
    LET s1 == [s EXCEPT !.burstEnds = @ - 1]
    IN  IF s1.currentTypingMode = "burst"
        THEN ReturnArmsToRest([s1 EXCEPT !.currentTypingMode = "none"], travel)
        ELSE s1

\* doMouseAndLeftHandKeys and doMouseAndLeftHandKeysThenType up to their
\* first timeout
DoMouseAndLeftHandKeys(s, thenType, travel) ==
    IF s.inInitialLoadPeriod \/ s.currentTypingMode # "none"
    THEN s
    ELSE [MoveLeftArmTo([s EXCEPT !.currentTypingMode = "burst"], travel)
              EXCEPT !.choreos = Append(@, [thenType |-> thenType, step |-> 2])]

\* a final timeout that leaves the left arm locked
ChoreoCallbackKeepsLock(s, k, char, travel) ==
    LET c == s.choreos[k]
        rest == [i \in 1..(Len(s.choreos) - 1) |->
                     IF i < k THEN s.choreos[i] ELSE s.choreos[i + 1]]
    IN  CASE c.step = 2 ->
               [s EXCEPT !.isTrackingMouse = TRUE, !.leftArmLocked = TRUE,
                         !.choreos[k].step = 3]
          [] c.step \in {3, 4} ->
               [TypeChar(s, char) EXCEPT !.choreos[k].step = @ + 1]
          [] OTHER ->
               LET s1 == [s EXCEPT !.isTrackingMouse = FALSE,
                                   !.currentTypingMode = "none", !.choreos = rest]
               IN  IF c.thenType THEN StartRandomTyping(s1)
                   ELSE ReturnArmsToRest(s1, travel)

\* the timeouts of one mouse choreography, in the order of their delays:
\* step 2 (500 ms), the two right-hand keys (800, 1100 ms), step 3 (2500 ms)
ChoreoCallback(s, k, char, travel) ==
    LET c == s.choreos[k]
        rest == [i \in 1..(Len(s.choreos) - 1) |->
                     IF i < k THEN s.choreos[i] ELSE s.choreos[i + 1]]
    IN  CASE c.step = 2 ->
               [s EXCEPT !.isTrackingMouse = TRUE, !.leftArmLocked = TRUE,
                         !.choreos[k].step = 3]
          [] c.step \in {3, 4} ->
               [TypeChar(s, char) EXCEPT !.choreos[k].step = @ + 1]
          [] OTHER ->
               LET s1 == [s EXCEPT !.isTrackingMouse = FALSE, !.leftArmLocked = FALSE,
                                   !.currentTypingMode = "none", !.choreos = rest]
               IN  IF c.thenType THEN StartRandomTyping(s1)
                   ELSE ReturnArmsToRest(s1, travel)

(***************************************************************************)
(* Orchestrator: state handling.  The data of a transition is reduced to   *)
(* the fields the handlers branch on: the message content of send_message  *)
(* and the channel named by a check_messages command.  p holds the inputs  *)
(* a handler draws: arm travel and the number of keys of a burst.          *)
(***************************************************************************)
NoData == [text |-> <<>>, channel |-> NoChannel]
\* the last replayed transition; newer is the number the next deferral would
\* get when a transition was last applied as it arrived: the deferrals with a
\* smaller number arrived before that transition
NoReplay == [to |-> "", id |-> 0, sess |-> 0, age |-> 0, newer |-> 0]

\* the text of a send_message transition with startTyping and messageContent
SendData(text) == [text |-> text, channel |-> NoChannel]

\* the replay delay of a state, and the time unit, in milliseconds
TIME_UNIT == 500
StateDelay(to) == IF to = "thinking" THEN 3000 ELSE 1000
Dwell(to) == StateDelay(to) \div TIME_UNIT

\* handleStateTransition, the displayed state: currentState = to
SetCurrentState(s, e) ==
    [s EXCEPT !.currentState = e.to,
              !.lastReplay = IF e.id # 0
                             THEN [to |-> e.to, id |-> e.id, sess |-> e.sess,
                                   age |-> 0, newer |-> @.newer]
                             ELSE [@ EXCEPT !.newer = s.nextDeferId]]

\* handleStateTransition, session tracking on waking
TrackSessionStart(s, e) == IF e.to = "waking" THEN OnSessionStart(s) ELSE s

\* Monitor.clearOverlay
ClearOverlay(s) == [s EXCEPT !.overlay = "none"]

\* Monitor.showDiff, showFile, showTerminal
ShowOverlay(s, type) == [s EXCEPT !.overlay = type]

\* handleStateTransition, the overlay on leaving editing, read_file or
\* terminal: cleared unless the target is one of the other two
LeaveOverlayState(s, e, st, others) ==
    IF e.from = st /\ e.to \notin others THEN ClearOverlay(s) ELSE s

\* handleStateTransition, leaving editing
LeaveEditing(s, e, p) ==
    LeaveOverlayState(
        IF e.from = "editing" THEN StopRandomTyping(s, p.travel) ELSE s,
        e, "editing", {"read_file", "terminal"})

\* handleStateTransition, leaving read_file
LeaveReadFile(s, e) == LeaveOverlayState(s, e, "read_file", {"editing", "terminal"})

\* handleStateTransition, leaving terminal
LeaveTerminal(s, e) == LeaveOverlayState(s, e, "terminal", {"editing", "read_file"})

\* handleStateTransition, leaving send_message
LeaveSendMessage(s, e, p) ==
    IF e.from = "send_message"
    THEN [ClearQueue(AbortTyping(s, p.travel))
              EXCEPT !.currentTypingMode = "none",
                     !.pendingTransitions = <<>>,
                     !.isRushingTyping = FALSE]
    ELSE s

\* handleStateTransition, entering send_message with a message to type
EnterSendMessage(s, e, p) ==
    IF e.to = "send_message" /\ e.data.text # <<>>
    THEN IF IsInitialLoad(s) \/ s.inInitialLoadPeriod
         THEN AddWendyMessage(s, e.data.text)
         ELSE TypeMessage(s, e.data.text, p.travel)
    ELSE s

\* handleStateTransition, entering editing
EnterEditing(s, e, p) ==
    IF e.to = "editing"
    THEN IF ~s.inInitialLoadPeriod
         THEN DoMouseAndLeftHandKeys(ShowOverlay(s, "diff"), TRUE, p.travel)
         ELSE ShowOverlay(s, "diff")
    ELSE s

\* handleStateTransition, entering read_file
EnterReadFile(s, e, p) ==
    IF e.to = "read_file"
    THEN IF ~s.inInitialLoadPeriod
         THEN DoMouseAndLeftHandKeys(ShowOverlay(s, "file"), FALSE, p.travel)
         ELSE ShowOverlay(s, "file")
    ELSE s

\* handleStateTransition, entering terminal
EnterTerminal(s, e, p) ==
    IF e.to = "terminal"
    THEN IF ~s.inInitialLoadPeriod
         THEN DoTypingBurst(ShowOverlay(s, "terminal"), p.numKeys)
         ELSE ShowOverlay(s, "terminal")
    ELSE s

\* handleStateTransition, entering done
EnterDone(s, e) == IF e.to = "done" THEN OnSessionEnd(s) ELSE s

\* the part of handleStateTransition that applies a transition: the
\* displayed state, then the leaving blocks, then the entering blocks
ApplyTransition(s, e, p) ==
    EnterDone(
      EnterTerminal(
        EnterReadFile(
          EnterEditing(
            EnterSendMessage(
              LeaveSendMessage(
                LeaveTerminal(
                  LeaveReadFile(
                    LeaveEditing(
                      TrackSessionStart(SetCurrentState(s, e), e),
                      e, p),
                    e),
                  e),
                e, p),
              e, p),
            e, p),
          e, p),
        e, p),
      e)

\* handleStateTransition, a new session starting: the list is emptied and
\* typing aborted before the transition is applied
WakingReset(s, p) ==
    [ClearQueue(AbortTyping([s EXCEPT !.pendingTransitions = <<>>,
                                      !.isRushingTyping = FALSE], p.travel))
         EXCEPT !.currentTypingMode = "none"]

\* handleStateTransition, a transition arriving while a message is typed:
\* it is pushed on the list and the typing is rushed once
DeferTransition(s, e) ==
    LET first == e.id = 0
        s1 == [s EXCEPT !.pendingTransitions =
                            Append(@, [from |-> e.from, to |-> e.to,
                                       data |-> e.data,
                                       id |-> IF first THEN s.nextDeferId ELSE e.id,
                                       sess |-> IF first THEN s.typing.sid ELSE e.sess]),
                        !.nextDeferId = IF first THEN @ + 1 ELSE @]
    IN  IF ~s.isRushingTyping
        THEN RushTyping([s1 EXCEPT !.isRushingTyping = TRUE])
        ELSE s1

\* handleStateTransition; e.id is 0 for a transition dispatched by the
\* StateMachine; for a replayed one e.id is the number of its first
\* deferral and e.sess the typing session that deferral happened in
HandleStateTransition(s, e, p) ==
    IF e.to # "waking" /\ IsTyping(s) /\ s.currentState = "send_message"
    THEN DeferTransition(s, e)
    ELSE ApplyTransition(IF e.to = "waking" THEN WakingReset(s, p) ELSE s, e, p)

\* the delays processPendingTransitions gives its timeouts, in time units
RECURSIVE ReplayTimeouts(_, _)
ReplayTimeouts(transitions, delay) ==
    IF transitions = <<>>
    THEN <<>>
    ELSE LET tr == Head(transitions)
         IN  <<[to |-> tr.to, data |-> tr.data, id |-> tr.id, sess |-> tr.sess,
                due |-> delay]>>
             \o ReplayTimeouts(Tail(transitions), delay + Dwell(tr.to))

\* processPendingTransitions
ProcessPendingTransitions(s) ==
    IF s.pendingTransitions = <<>>
    THEN s
    ELSE [s EXCEPT !.replayTimers = @ \o ReplayTimeouts(s.pendingTransitions, 0),
                   !.pendingTransitions = <<>>,
                   !.isRushingTyping = FALSE]

\* the timeout callback of processPendingTransitions
ReplayCallback(s, k, p) ==
    LET tm == s.replayTimers[k]
        rest == [i \in 1..(Len(s.replayTimers) - 1) |->
                     IF i < k THEN s.replayTimers[i] ELSE s.replayTimers[i + 1]]
    IN  HandleStateTransition([s EXCEPT !.replayTimers = rest],
                              [from |-> s.currentState, to |-> tm.to,
                               data |-> tm.data, id |-> tm.id, sess |-> tm.sess], p)

\* handleStateResult
HandleStateResult(s, resultState, data, messages) ==
    IF resultState = "check_messages" /\ messages # <<>>
    THEN LET channelId == IF data.channel # NoChannel THEN data.channel ELSE "default"
         IN  ReceiveMessages(SetCurrentChannel(s, channelId), channelId, messages)
    ELSE s

\* updateLogic
UpdateLogic(s, delta, p) ==
    LET s1 == TCUpdate(s, CappedDelta(delta), p.travel)
        s2 == IF ~TCIsTyping(s1) /\ IsTypingComplete(s1)
              THEN LET f == FinishTyping(s1, p.travel)
                       g == IF f.currentTypingMode = "message"
                            THEN [f EXCEPT !.currentTypingMode = "none"]
                            ELSE f
                   IN  ProcessPendingTransitions(g)
              ELSE s1
    IN  IF s2.isTrackingMouse THEN MoveLeftArmTo(s2, p.travel) ELSE s2

\* a render tick that moves the arms as the logic tick does
AnimateMovesArms(s) ==
    [TCUpdate(s, CappedDelta(MAX_DELTA), 0) EXCEPT !.frames = @ + 1]

\* animate: typingEnabled is never assigned after its initialisation to
\* true, so the manual IK branch does not run; the rest draws
Animate(s) == [s EXCEPT !.frames = @ + 1]

\* processEventForChat, for a tool_use event of the given tool
ProcessEventForChat(s, tool, text) ==
    IF tool = "send_message"
    THEN QueueWendyMessage(s, IF s.currentChannelId # NoChannel
                              THEN s.currentChannelId ELSE "default", text)
    ELSE s

(***************************************************************************)
(* StateMachine.  It is built without a typing animator, so transition()   *)
(* never postpones; its 'transition' and 'result' events run the           *)
(* orchestrator's listeners before it returns.                             *)
(***************************************************************************)
\* toolId is the classified event's toolId, which the state machine does
\* not store: it is kept here to tell whose result a tool result is.
\* superseded is history too: whether a later tool use, a result event or
\* an init event has been processed since the message was recorded
NoPendingSend == [pending |-> FALSE, text |-> <<>>, toolId |-> 0, superseded |-> FALSE]

Supersede(s) ==
    IF s.pendingSendMessage.pending
    THEN [s EXCEPT !.pendingSendMessage.superseded = TRUE]
    ELSE s

\* a transition that leaves a pending idle timeout in place
TransitionKeepsTimer(s, newState, data, p) ==
    LET oldState == s.state
        s1 == [s EXCEPT !.state = newState, !.stateData = data,
                        !.idleTimeout = (@ \/ newState = "done")]
    IN  HandleStateTransition(s1, [from |-> oldState, to |-> newState,
                                   data |-> data, id |-> 0, sess |-> 0], p)

\* StateMachine.transition
Transition(s, newState, data, p) ==
    LET oldState == s.state
        s1 == [s EXCEPT !.state = newState, !.stateData = data,
                        !.idleTimeout = (newState = "done")]
    IN  HandleStateTransition(s1, [from |-> oldState, to |-> newState,
                                   data |-> data, id |-> 0, sess |-> 0], p)

\* StateMachine.handleToolUse
HandleToolUse(s, tool, text, channel, toolId, p) ==
    CASE tool = "check_messages" ->
           Transition(s, "check_messages", [text |-> <<>>, channel |-> channel], p)
      [] tool = "send_message" ->
           [s EXCEPT !.pendingSendMessage =
                         [pending |-> TRUE, text |-> text, toolId |-> toolId,
                          superseded |-> FALSE]]
      [] tool = "Bash" -> Transition(s, "terminal", NoData, p)
      [] tool = "Edit" -> Transition(s, "editing", NoData, p)
      [] tool = "Read" -> Transition(s, "read_file", NoData, p)
      [] OTHER -> Transition(s, "terminal", NoData, p)

\* parseCheckMessagesResult, on the kinds of result content
ParseCheckMessagesResult(content) ==
    IF content = "messages"
    THEN <<[author |-> "user", content |-> <<"h", "i">>, timestamp |-> 1]>>
    ELSE <<>>

\* StateMachine.handleToolResult; content is one of "success" (text that
\* includes 'success'), "messages" (JSON with a message list), "other"
HandleToolResult(s, content, isError, p) ==
    LET sendData == s.pendingSendMessage
        s1 == [s EXCEPT !.pendingSendMessage = NoPendingSend]
        isSuccess == ~isError /\ content = "success"
        messages == IF s1.state = "check_messages"
                    THEN ParseCheckMessagesResult(content)
                    ELSE <<>>
    IN  IF sendData.pending /\ isSuccess
        THEN Transition(s1, "send_message", SendData(sendData.text), p)
        ELSE HandleStateResult(s1, s1.state, s1.stateData, messages)

\* StateMachine.processEvent after processEventForChat, as the stream's
\* 'event' listener calls them
ProcessEvent(s, ev, p) ==
    CASE ev.type = "init" -> Transition(Supersede(s), "waking", NoData, p)
      [] ev.type = "result" -> Transition(Supersede(s), "done", NoData, p)
      [] ev.type = "thinking" -> Transition(s, "thinking", NoData, p)
      [] ev.type = "tool_use" ->
           HandleToolUse(ProcessEventForChat(Supersede(s), ev.tool, ev.text),
                         ev.tool, ev.text, ev.channel, ev.toolId, p)
      [] ev.type = "tool_result" -> HandleToolResult(s, ev.content, ev.isError, p)
      [] OTHER -> s

(***************************************************************************)
(* Specification of the TypingController on its own: its public            *)
(* operations called in any order by its owner.                            *)
(***************************************************************************)
InitTC ==
    /\ keypressQueue = <<>>
    /\ currentKeypress = NoKeypress
    /\ leftArmDist = 0
    /\ rightArmDist = 0
    /\ leftArmLocked = FALSE
    /\ rightArmLocked = FALSE
    /\ nextKeyId = 1
    /\ pressed = <<>>
    /\ moves = 0
    /\ locks = 0
    /\ clears = 0

\* new ChatManager(...)
InitCM ==
    /\ typing = NoTyping
    /\ currentChannelId = NoChannel
    /\ channels = [c \in {} |-> EmptyChannel]
    /\ sessionCount = 0
    /\ lastProcessedSession = -1
    /\ pendingMessage = NoPendingMessage
    /\ loops = [k \in {} |-> 0]
    /\ clock = 0
    /\ nextSid = 1
    /\ abortedSids = {}
    /\ finishedSids = {}
    /\ starts = 0
    /\ ends = 0
    /\ receives = 0

\* new StateMachine()
InitSM ==
    /\ state = "idle"
    /\ stateData = NoData
    /\ pendingSendMessage = NoPendingSend
    /\ idleTimeout = FALSE

\* the module-level state of the orchestrator at page load
InitMain ==
    /\ currentState = ""
    /\ pendingTransitions = <<>>
    /\ isRushingTyping = FALSE
    /\ currentTypingMode = "none"
    /\ typingModeInterval = NoInterval
    /\ isTrackingMouse = FALSE
    /\ overlay = "none"
    /\ inInitialLoadPeriod = TRUE
    /\ intervals = [k \in {} |-> 0]
    /\ nextIntervalId = 1
    /\ burstEnds = 0
    /\ choreos = <<>>
    /\ replayTimers = <<>>
    /\ nEvents = 0
    /\ nextDeferId = 1
    /\ openTools = {}
    /\ frames = 0
    /\ joints = RestPose
    /\ monitorTyping = NoMonitorTyping
    /\ lastReplay = NoReplay

Init == InitTC /\ InitCM /\ InitSM /\ InitMain

\* the program once the historical replay is over: the first session (init,
\* result) has gone by within the grace period, the idle timeout has fired
\* and the grace period has run out
InitLive ==
    /\ InitTC
    /\ typing = NoTyping
    /\ currentChannelId = NoChannel
    /\ channels = [c \in {} |-> EmptyChannel]
    /\ sessionCount = 1
    /\ lastProcessedSession = 1
    /\ pendingMessage = NoPendingMessage
    /\ loops = [k \in {} |-> 0]
    /\ clock = 0
    /\ nextSid = 1
    /\ abortedSids = {}
    /\ finishedSids = {}
    /\ starts = 0
    /\ ends = 0
    /\ receives = 0
    /\ InitSM
    /\ currentState = "idle"
    /\ pendingTransitions = <<>>
    /\ isRushingTyping = FALSE
    /\ currentTypingMode = "none"
    /\ typingModeInterval = NoInterval
    /\ isTrackingMouse = FALSE
    /\ overlay = "none"
    /\ inInitialLoadPeriod = FALSE
    /\ intervals = [k \in {} |-> 0]
    /\ nextIntervalId = 1
    /\ burstEnds = 0
    /\ choreos = <<>>
    /\ replayTimers = <<>>
    /\ nEvents = 0
    /\ nextDeferId = 1
    /\ openTools = {}
    /\ frames = 0
    /\ joints = RestPose
    /\ monitorTyping = NoMonitorTyping
    /\ lastReplay = NoReplay

TCTypeCharacterStep ==
    \E char \in Chars :
        /\ nextKeyId <= MaxEnq
        /\ Becomes(TypeCharacter(S, char))

TCUpdateStep ==
    \E delta \in TickDeltas, travel \in KeyTravels :
        Becomes(TCUpdate(S, CappedDelta(delta), travel))

\* leftArmLocked / rightArmLocked are public fields, set by the owner
TCLockStep ==
    \E left \in BOOLEAN, b \in BOOLEAN :
        /\ moves + locks + clears < MaxOps
        /\ IF left THEN leftArmLocked # b ELSE rightArmLocked # b
        /\ Becomes(IF left THEN [S EXCEPT !.leftArmLocked = b, !.locks = @ + 1]
                           ELSE [S EXCEPT !.rightArmLocked = b, !.locks = @ + 1])

TCClearQueueStep ==
    /\ moves + locks + clears < MaxOps
    /\ Becomes([ClearQueue(S) EXCEPT !.clears = @ + 1])

TCMoveArmStep ==
    \E left \in BOOLEAN, travel \in KeyTravels :
        /\ moves + locks + clears < MaxOps
        /\ Becomes([(IF left THEN MoveLeftArmTo(S, travel)
                             ELSE MoveRightArmTo(S, travel))
                    EXCEPT !.moves = @ + 1])

TCReturnToRestStep ==
    \E tl \in KeyTravels, tr \in KeyTravels :
        /\ moves + locks + clears < MaxOps
        /\ Becomes([ReturnToRest(S, tl, tr) EXCEPT !.moves = @ + 1])

NextTC ==
    \/ TCTypeCharacterStep
    \/ TCUpdateStep
    \/ TCLockStep
    \/ TCClearQueueStep
    \/ TCMoveArmStep
    \/ TCReturnToRestStep

SpecTC == Init /\ [][NextTC]_vars

(***************************************************************************)
(* The same controller under the scheduling the program gives it: the      *)
(* logic tick is a setInterval that keeps firing, and time passes between  *)
(* ticks.  Smaller input sets keep the liveness check small.               *)
(***************************************************************************)
MaxLiveEnq == 2
LiveChars == {"a", "j"}
LiveDeltas == {0, 16, 250}
LiveTravels == {10, 120}

TCLiveTypeCharacterStep ==
    \E char \in LiveChars :
        /\ nextKeyId <= MaxLiveEnq
        /\ Becomes(TypeCharacter(S, char))

TCLiveUpdateStep ==
    \E delta \in LiveDeltas, travel \in LiveTravels :
        Becomes(TCUpdate(S, CappedDelta(delta), travel))

TCLiveLockStep ==
    \E b \in BOOLEAN :
        /\ moves + locks + clears < MaxOps
        /\ leftArmLocked # b
        /\ Becomes([S EXCEPT !.leftArmLocked = b, !.locks = @ + 1])

TCLiveMoveArmStep ==
    \E travel \in LiveTravels :
        /\ moves + locks + clears < MaxOps
        /\ Becomes([MoveLeftArmTo(S, travel) EXCEPT !.moves = @ + 1])

LiveNextTC ==
    \/ TCLiveTypeCharacterStep
    \/ TCLiveUpdateStep
    \/ TCLiveLockStep
    \/ TCLiveMoveArmStep

TCPositiveUpdateStep ==
    \E delta \in LiveDeltas \ {0}, travel \in LiveTravels :
        Becomes(TCUpdate(S, CappedDelta(delta), travel))

LiveSpecTC == Init /\ [][LiveNextTC]_vars /\ WF_vars(TCPositiveUpdateStep)

(***************************************************************************)
(* The controller typing a text that holds characters with no key, with    *)
(* nothing else touching the arms: typeCharacter calls and logic ticks.    *)
(***************************************************************************)
MaxKeyEnq == 3

KeysTypeCharacterStep ==
    \E char \in Chars :
        /\ nextKeyId <= MaxKeyEnq
        /\ Becomes(TypeCharacter(S, char))

KeysUpdateStep ==
    \E delta \in LiveDeltas, travel \in LiveTravels :
        Becomes(TCUpdate(S, CappedDelta(delta), travel))

NextKeys ==
    \/ KeysTypeCharacterStep
    \/ KeysUpdateStep

LiveSpecKeys == Init /\ [][NextKeys]_vars /\ WF_vars(TCPositiveUpdateStep)

(***************************************************************************)
(* Specification of the ChatManager with the callbacks initApp gives it:   *)
(* its public operations called in any order, its suspended typeMessage    *)
(* calls resumed by their timers, and the logic tick.                      *)
(***************************************************************************)
MaxSessions == 2
MaxCMOps == 1
Texts == {<<"h", "i">>}
ChannelIds == {"default"}
CMTravels == {120}
CMInputs == {[travel |-> tv, numKeys |-> 2] : tv \in CMTravels}

LogLen(s) ==
    IF s.currentChannelId \in DOMAIN s.channels
    THEN Len(s.channels[s.currentChannelId].order)
    ELSE 0

CMTypeMessageStep ==
    \E text \in Texts, p \in CMInputs :
        /\ nextSid <= MaxSessions
        /\ Becomes(TypeMessage(S, text, p.travel))

CMResumeStep ==
    \E sid \in DOMAIN loops, p \in CMInputs :
        Becomes(ResumeTypeMessage(S, sid, p.travel))

CMAbortTypingStep ==
    \E p \in CMInputs : Becomes(AbortTyping(S, p.travel))

CMUpdateLogicStep ==
    \E p \in CMInputs : Becomes(UpdateLogic(S, MAX_DELTA, p))

CMSetCurrentChannelStep ==
    \E channelId \in ChannelIds : Becomes(SetCurrentChannel(S, channelId))

CMAddWendyMessageStep ==
    \E text \in Texts :
        /\ LogLen(S) + clock < MaxCMOps
        /\ Becomes(AddWendyMessage(S, text))

\* a millisecond passes
CMClockStep ==
    /\ LogLen(S) + clock < MaxCMOps
    /\ Becomes([S EXCEPT !.clock = @ + 1])

NextCM ==
    \/ CMTypeMessageStep
    \/ CMResumeStep
    \/ CMAbortTypingStep
    \/ CMUpdateLogicStep
    \/ CMSetCurrentChannelStep
    \/ CMAddWendyMessageStep
    \/ CMClockStep

SpecCM == Init /\ [][NextCM]_vars

\* the ChatManager's typing sessions with reset() among the calls
CMResetStep ==
    \E p \in CMInputs : Becomes(Reset(S, p.travel))

NextSessions ==
    \/ CMTypeMessageStep
    \/ CMResumeStep
    \/ CMAbortTypingStep
    \/ CMUpdateLogicStep
    \/ CMSetCurrentChannelStep
    \/ CMResetStep

SpecSessions == Init /\ [][NextSessions]_vars

(***************************************************************************)
(* Specification of the program: stream events, the logic tick and the     *)
(* timers, in any interleaving.  Time passes in units of TIME_UNIT for the *)
(* replay timeouts; the other timers fire at any moment, in the order of   *)
(* their delays where one choreography sets several.                       *)
(***************************************************************************)
MaxEvents == 3
MaxKeys == 2
MaxBurstEnds == 1
Messages == {<<"h", "i">>}
Tools == {"check_messages", "send_message", "Bash", "Edit", "Read"}
ToolResults == {[content |-> "success", isError |-> FALSE],
                [content |-> "messages", isError |-> FALSE],
                [content |-> "other", isError |-> TRUE]}
RandomChars == {"a", "j"}
RightHandKeys == {"j"}
Inputs == {[travel |-> 120, numKeys |-> 2]}

Delivered(s) == [s EXCEPT !.nEvents = @ + 1]

InitEventStep ==
    \E p \in Inputs :
        /\ nEvents < MaxEvents
        /\ Becomes(Delivered(ProcessEvent(S, [type |-> "init"], p)))

ResultEventStep ==
    \E p \in Inputs :
        /\ nEvents < MaxEvents
        /\ Becomes(Delivered(ProcessEvent(S, [type |-> "result"], p)))

ThinkingEventStep ==
    \E p \in Inputs :
        /\ nEvents < MaxEvents
        /\ Becomes(Delivered(ProcessEvent(S, [type |-> "thinking"], p)))

ToolUseEventStep ==
    \E tool \in Tools, text \in Messages, p \in Inputs :
        /\ nEvents < MaxEvents
        /\ Becomes(Delivered(ProcessEvent(S,
               [type |-> "tool_use", tool |-> tool, toolId |-> 0,
                text |-> IF tool = "send_message" THEN text ELSE <<>>,
                channel |-> IF tool = "check_messages" THEN "c1" ELSE NoChannel], p)))

ToolResultEventStep ==
    \E r \in ToolResults, p \in Inputs :
        /\ nEvents < MaxEvents
        /\ Becomes(Delivered(ProcessEvent(S,
               [type |-> "tool_result", content |-> r.content,
                isError |-> r.isError], p)))

\* the stream's 'disconnected' listener
DisconnectedStep ==
    \E p \in Inputs :
        /\ nEvents < MaxEvents
        /\ Becomes(Delivered(AbortTyping(S, p.travel)))

\* the grace period after page load runs out
GracePeriodEndStep ==
    /\ inInitialLoadPeriod
    /\ Becomes([S EXCEPT !.inInitialLoadPeriod = FALSE])

UpdateLogicStep ==
    \E p \in Inputs : Becomes(UpdateLogic(S, MAX_DELTA, p))

ResumeTypeMessageStep ==
    \E sid \in DOMAIN loops, p \in Inputs :
        Becomes(ResumeTypeMessage(S, sid, p.travel))

\* whether the callback of an interval would type a key now
IntervalTypes(s, id) ==
    /\ s.currentTypingMode = s.intervals[id].kind
    /\ s.intervals[id].kind = "burst" => s.intervals[id].keysTyped < s.intervals[id].numKeys

IntervalStep ==
    \E id \in DOMAIN intervals, char \in RandomChars :
        /\ IntervalTypes(S, id) => nextKeyId <= MaxKeys
        /\ burstEnds < MaxBurstEnds
        /\ Becomes(IntervalCallback(S, id, char))

BurstEndStep ==
    \E p \in Inputs :
        /\ burstEnds > 0
        /\ Becomes(BurstEndCallback(S, p.travel))

ChoreoStep ==
    \E k \in DOMAIN choreos, char \in RightHandKeys, p \in Inputs :
        /\ choreos[k].step \in {3, 4} => nextKeyId <= MaxKeys
        /\ Becomes(ChoreoCallback(S, k, char, p.travel))

ReplayStep ==
    \E k \in DOMAIN replayTimers, p \in Inputs :
        /\ replayTimers[k].due = 0
        /\ \A j \in 1..(k - 1) : replayTimers[j].due # 0
        /\ Becomes(ReplayCallback(S, k, p))

\* the idle timeout set on entering done
IdleTimeoutStep ==
    \E p \in Inputs :
        /\ idleTimeout
        /\ Becomes(Transition([S EXCEPT !.idleTimeout = FALSE], "idle", NoData, p))

\* one time unit passes: no replay timeout is left due
TickStep ==
    /\ \A k \in DOMAIN replayTimers : replayTimers[k].due > 0
    /\ Becomes([S EXCEPT !.replayTimers =
                             [k \in DOMAIN @ |-> [@[k] EXCEPT !.due = @ - 1]],
                         !.lastReplay.age =
                             IF lastReplay.id # 0 /\ @ < Dwell(lastReplay.to)
                             THEN @ + 1 ELSE @])

Next ==
    \/ InitEventStep
    \/ ResultEventStep
    \/ ThinkingEventStep
    \/ ToolUseEventStep
    \/ ToolResultEventStep
    \/ DisconnectedStep
    \/ UpdateLogicStep
    \/ ResumeTypeMessageStep
    \/ IntervalStep
    \/ BurstEndStep
    \/ ChoreoStep
    \/ ReplayStep
    \/ IdleTimeoutStep
    \/ TickStep

Spec == InitLive /\ [][Next]_vars

\* the stream's 'auth_required' listener
AuthRequiredStep ==
    \E p \in Inputs : Becomes(Reset(S, p.travel))

\* the program from page load on; within MaxEvents events after a page load
\* no transition is deferred, so no replay timeout is ever scheduled
NextLoad ==
    \/ InitEventStep
    \/ ResultEventStep
    \/ ThinkingEventStep
    \/ ToolUseEventStep
    \/ ToolResultEventStep
    \/ DisconnectedStep
    \/ UpdateLogicStep
    \/ ResumeTypeMessageStep
    \/ IntervalStep
    \/ BurstEndStep
    \/ ChoreoStep
    \/ IdleTimeoutStep
    \/ TickStep
    \/ GracePeriodEndStep
    \/ AuthRequiredStep

SpecLoad == Init /\ [][NextLoad]_vars

(***************************************************************************)
(* The program under the events that start no busy animation: session      *)
(* starts, thinking, check_messages and send_message tool uses, tool       *)
(* results and disconnections.  More events fit in the same state space.   *)
(***************************************************************************)
MaxDeferEvents == 6
DeferTools == {"send_message"}
DeferMessages == {<<"h">>}
DeferResults == {[content |-> "success", isError |-> FALSE]}

DeferInitEventStep ==
    \E p \in Inputs :
        /\ nEvents < MaxDeferEvents
        /\ Becomes(Delivered(ProcessEvent(S, [type |-> "init"], p)))

DeferThinkingEventStep ==
    \E p \in Inputs :
        /\ nEvents < MaxDeferEvents
        /\ Becomes(Delivered(ProcessEvent(S, [type |-> "thinking"], p)))

DeferToolUseEventStep ==
    \E tool \in DeferTools, text \in DeferMessages, p \in Inputs :
        /\ nEvents < MaxDeferEvents
        /\ Becomes(Delivered(ProcessEvent(S,
               [type |-> "tool_use", tool |-> tool, toolId |-> 0,
                text |-> IF tool = "send_message" THEN text ELSE <<>>,
                channel |-> IF tool = "check_messages" THEN "c1" ELSE NoChannel], p)))

DeferToolResultEventStep ==
    \E r \in DeferResults, p \in Inputs :
        /\ nEvents < MaxDeferEvents
        /\ Becomes(Delivered(ProcessEvent(S,
               [type |-> "tool_result", content |-> r.content,
                isError |-> r.isError], p)))

DeferDisconnectedStep ==
    \E p \in Inputs :
        /\ nEvents < MaxDeferEvents
        /\ Becomes(Delivered(AbortTyping(S, p.travel)))

NextDefer ==
    \/ DeferInitEventStep
    \/ DeferThinkingEventStep
    \/ DeferToolUseEventStep
    \/ DeferToolResultEventStep
    \/ DeferDisconnectedStep
    \/ UpdateLogicStep
    \/ ResumeTypeMessageStep
    \/ ReplayStep
    \/ TickStep

SpecDefer == InitLive /\ [][NextDefer]_vars

(***************************************************************************)
(* The same events in a shorter run, with the logic tick, a setInterval,   *)
(* running for ever.                                                       *)
(***************************************************************************)
MaxFlushEvents == 4

FlushInitEventStep ==
    \E p \in Inputs :
        /\ nEvents < MaxFlushEvents
        /\ Becomes(Delivered(ProcessEvent(S, [type |-> "init"], p)))

FlushThinkingEventStep ==
    \E p \in Inputs :
        /\ nEvents < MaxFlushEvents
        /\ Becomes(Delivered(ProcessEvent(S, [type |-> "thinking"], p)))

FlushToolUseEventStep ==
    \E text \in DeferMessages, p \in Inputs :
        /\ nEvents < MaxFlushEvents
        /\ Becomes(Delivered(ProcessEvent(S,
               [type |-> "tool_use", tool |-> "send_message", toolId |-> 0,
                text |-> text, channel |-> NoChannel], p)))

FlushToolResultEventStep ==
    \E r \in DeferResults, p \in Inputs :
        /\ nEvents < MaxFlushEvents
        /\ Becomes(Delivered(ProcessEvent(S,
               [type |-> "tool_result", content |-> r.content,
                isError |-> r.isError], p)))

FlushDisconnectedStep ==
    \E p \in Inputs :
        /\ nEvents < MaxFlushEvents
        /\ Becomes(Delivered(AbortTyping(S, p.travel)))

NextFlush ==
    \/ FlushInitEventStep
    \/ FlushThinkingEventStep
    \/ FlushToolUseEventStep
    \/ FlushToolResultEventStep
    \/ FlushDisconnectedStep
    \/ UpdateLogicStep
    \/ ResumeTypeMessageStep
    \/ ReplayStep
    \/ TickStep

LiveSpecFlush == InitLive /\ [][NextFlush]_vars /\ WF_vars(UpdateLogicStep)

(***************************************************************************)
(* Claims about the TypingController                                       *)
(***************************************************************************)
QueueIds(q) == {q[i].id : i \in DOMAIN q}
PressedIds == {pressed[i][1] : i \in DOMAIN pressed}
ArmDistNext(isLeft) == IF isLeft THEN leftArmDist' ELSE rightArmDist'

\* C6: with no lock held and no clearQueue, the keypress callback is invoked
\* once per enqueued character and in enqueue order; when the controller has
\* gone idle every enqueued character has had its callback.
C6_KeystrokeOrder ==
    (locks = 0 /\ clears = 0) =>
        /\ \A i \in DOMAIN pressed : pressed[i][1] = i
        /\ (~TCIsTyping(S) => Len(pressed) = nextKeyId - 1)

C6_Witness ==
    /\ locks = 0 /\ clears = 0
    /\ Len(pressed) >= 3
    /\ ~TCIsTyping(S)

\* the keypress in flight changes phase only hover -> press -> lift, and the
\* callback fires exactly at the press -> lift step, with the arm at the
\* press position
PhaseSteps ==
    LET cur == currentKeypress
        nxt == currentKeypress'
    IN  /\ (cur.phase # "none" /\ nxt.id = cur.id) =>
               <<cur.phase, nxt.phase>> \in
                   {<<"hover", "hover">>, <<"hover", "press">>, <<"press", "press">>,
                    <<"press", "lift">>, <<"lift", "lift">>}
        /\ (nxt.id # cur.id /\ nxt.phase # "none") =>
               /\ nxt.phase \in {"hover", "press"}
               /\ nxt.id \notin PressedIds
        /\ (pressed' # pressed) =>
               /\ cur.phase = "press" /\ nxt.phase = "lift" /\ nxt.id = cur.id
               /\ pressed' = Append(pressed, <<cur.id, cur.char>>)
               /\ ArmDistNext(cur.isLeftHand) - PressTravel < KEYPRESS_THRESHOLD
        /\ (cur.phase = "press" /\ nxt.phase = "lift" /\ nxt.id = cur.id) =>
               pressed' # pressed

RemovedAtEndOfLift ==
    /\ currentKeypress.phase = "lift"
    /\ currentKeypress' = NoKeypress
    /\ ArmDistNext(currentKeypress.isLeftHand) < KEYPRESS_THRESHOLD

RemovedByClearQueue ==
    /\ clears' # clears
    /\ currentKeypress' = NoKeypress
    /\ keypressQueue' = <<>>
    /\ pressed' = pressed

\* C7 as stated: every active keypress goes hover, press, lift in order, the
\* callback fires exactly once at press -> lift, and the keypress is removed
\* only on arrival at the end of lift.
C7_Original ==
    [][/\ PhaseSteps
       /\ (currentKeypress.phase # "none" /\ currentKeypress'.id # currentKeypress.id)
              => RemovedAtEndOfLift]_vars

\* C7 amended: as C7, except that clearQueue() may remove the active keypress
\* in any phase, without invoking the callback.
C7_PhaseOrder ==
    [][/\ PhaseSteps
       /\ (currentKeypress.phase # "none" /\ currentKeypress'.id # currentKeypress.id)
              => (RemovedAtEndOfLift \/ RemovedByClearQueue)]_vars

C7_Witness ==
    /\ currentKeypress = NoKeypress
    /\ clears = 0
    /\ Len(pressed) >= 2

\* C8: with the logic tick running with positive deltas, the controller
\* keeps returning to the drained state (no active keypress, empty queue):
\* every keypress that has become active is eventually removed, and the
\* queue eventually drains, whatever the deltas.
C8_Completion == []<>(~TCIsTyping(S))

C8_Witness ==
    /\ ~TCIsTyping(S)
    /\ nextKeyId > 2
    /\ Len(pressed) >= 2

LockedNow(kp) == HandLocked(S, kp)
LockedNext(kp) ==
    \/ kp.isLeftHand /\ leftArmLocked'
    \/ ~kp.isLeftHand /\ rightArmLocked'

NeverActivatesLocked ==
    (currentKeypress'.id # currentKeypress.id /\ currentKeypress'.id # 0) =>
        /\ ~LockedNow(currentKeypress')
        /\ \A id \in PressedIds : id < currentKeypress'.id
        /\ currentKeypress.id < currentKeypress'.id \/ currentKeypress.id = 0

DeferrableStates == {"thinking", "terminal", "editing", "read_file",
                     "check_messages", "done"}

\* this step is the delivery of a stream event that makes the StateMachine
\* dispatch a transition to the given state
TransitionArrives(to) ==
    \E p \in Inputs : Becomes(Delivered(Transition(S, to, NoData, p)))

\* C1: while a typing session is active, a transition to a state other than
\* send_message and waking is deferred: it is appended at the tail of the
\* pending list, the displayed state stays, the session stays active and
\* unaborted, and the session is rushed.
C1_DeferAndRush ==
    [][\A to \in DeferrableStates :
           (typing.active /\ TransitionArrives(to)) =>
               /\ pendingTransitions' =
                      Append(pendingTransitions,
                             [from |-> state, to |-> to, data |-> NoData,
                              id |-> nextDeferId, sess |-> typing.sid])
               /\ currentState' = currentState
               /\ typing'.active /\ typing'.sid = typing.sid
               /\ typing.sid \notin abortedSids'
               /\ typing'.rushed]_vars

\* a replayed transition is applied in this step
ReplayApplied == lastReplay'.id # lastReplay.id

\* C2: the transitions deferred during one typing session are applied in
\* the order of their deferral, and a replayed state is held for its dwell
\* (3 s for thinking, 1 s otherwise) before the next of them is applied.
C2_ReplayOrderAndDwell ==
    [][(ReplayApplied /\ lastReplay.id # 0 /\ lastReplay'.sess = lastReplay.sess) =>
           /\ lastReplay'.id > lastReplay.id
           /\ lastReplay.age >= Dwell(lastReplay.to)]_vars

\* this step is the delivery of an init event
WakingArrives == TransitionArrives("waking")

\* C3: a waking transition that arrives while a typing session is active is
\* applied at once, empties the pending list and aborts the session; no
\* aborted session is ever finished as a commit.
C3_WakingAborts ==
    /\ [](abortedSids \cap finishedSids = {})
    /\ [][(typing.active /\ WakingArrives) =>
              /\ currentState' = "waking"
              /\ pendingTransitions' = <<>>
              /\ ~typing'.active
              /\ typing.sid \in abortedSids'
              /\ finishedSids' = finishedSids
              /\ channels' = channels]_vars

\* after four events (send_message tool use, its successful result, a
\* deferred transition, init) the only session has been aborted by the
\* waking transition, the list is empty, and the loop of the aborted
\* session has run to its end without finishing it
C3_Witness ==
    /\ currentState = "waking"
    /\ nEvents = 4
    /\ nextDeferId > 1
    /\ abortedSids = {1}
    /\ finishedSids = {}
    /\ pendingTransitions = <<>>
    /\ replayTimers = <<>>
    /\ DOMAIN loops = {}

\* C4: once abortTyping() has been called on an active session, the
\* per-character callback is never invoked again for a character of that
\* session.
C4_NoCharAfterAbort ==
    [][\A sid \in abortedSids :
           (sid \in DOMAIN loops /\ sid \in DOMAIN loops') =>
               /\ loops'[sid].i = loops[sid].i
               /\ nextKeyId' = nextKeyId]_vars

RandomTypingRunning == \E id \in DOMAIN intervals : intervals[id].kind = "random"
BurstOrChoreographyRunning ==
    \/ \E id \in DOMAIN intervals : intervals[id].kind = "burst"
    \/ burstEnds > 0
    \/ choreos # <<>>
    \/ leftArmLocked
    \/ isTrackingMouse

\* C5: no two of a typing session, a random typing interval and a burst or
\* mouse choreography (with the arm lock it holds) are in progress at once.
C5_MutualExclusion ==
    /\ ~(typing.active /\ RandomTypingRunning)
    /\ ~(typing.active /\ BurstOrChoreographyRunning)
    /\ ~(RandomTypingRunning /\ BurstOrChoreographyRunning)

\* a typing session ends in this step without having been aborted
CompletesNaturally ==
    /\ typing.active
    /\ ~typing'.active
    /\ typing.sid \notin abortedSids'

\* C10: when a typing session for text T completes without abort, exactly
\* one message, with content T and author Wendy, is appended to the current
\* channel's log, and the end callback is invoked once.
C10_CommitOnCompletion ==
    [][CompletesNaturally =>
           /\ currentChannelId # NoChannel
           /\ currentChannelId \in DOMAIN channels
           /\ currentChannelId \in DOMAIN channels'
           /\ \E id \in {m.id : m \in channels'[currentChannelId].messages} :
                  /\ channels'[currentChannelId].order =
                         Append(channels[currentChannelId].order, id)
                  /\ [id |-> id, author |-> "Wendy", content |-> typing.text]
                         \in channels'[currentChannelId].messages
           /\ ends' = ends + 1]_vars

\* C11: abortTyping() leaves every channel log unchanged, at whatever
\* point of the session it is called, and no aborted session is finished
\* (and so committed) by a later step.
C11_AbortNeverCommits ==
    /\ [][abortedSids' # abortedSids => channels' = channels]_vars
    /\ [](\A sid \in abortedSids : sid \notin finishedSids)

\* session 1 was aborted after its first character was pressed, with a
\* current channel set, and a later session was finished and committed
C11_Witness ==
    /\ currentChannelId # NoChannel
    /\ 1 \in abortedSids
    /\ 2 \in finishedSids
    /\ Len(pressed) >= 1
    /\ LogLen(S) = 1

\* C12: the end callback has been invoked once for every session that was
\* aborted or finished; abortTyping() on an active session invokes it once,
\* and abortTyping() again, or with no active session, changes nothing.
C12_AbortEndsOnce ==
    /\ ends = Cardinality(abortedSids) + Cardinality(finishedSids)
    /\ \A p \in CMInputs :
           IF typing.active
           THEN /\ AbortTyping(S, p.travel).ends = ends + 1
                /\ AbortTyping(AbortTyping(S, p.travel), p.travel) =
                       AbortTyping(S, p.travel)
           ELSE AbortTyping(S, p.travel) = S

\* one session was aborted, another one finished, none is active
C12_Witness ==
    /\ abortedSids # {}
    /\ finishedSids # {}
    /\ ~typing.active
    /\ ends = 2

\* C13: while a session is active, typeMessage changes nothing (no start
\* callback, no per-character callback, same text and index), and the
\* start and end callbacks show at most one session in progress.
C13_SingleSession ==
    /\ starts = ends + (IF typing.active THEN 1 ELSE 0)
    /\ typing.active =>
           \A text \in Texts, p \in CMInputs : TypeMessage(S, text, p.travel) = S

\* the second session is active, past its first character
C13_Witness ==
    /\ typing.active
    /\ typing.sid = 2
    /\ typing.index >= 1
    /\ starts = 2

\* this step appends one message with the given content and the agent as
\* author to the log of the current channel
CommitsMessage(content) ==
    /\ currentChannelId # NoChannel
    /\ currentChannelId \in DOMAIN channels
    /\ currentChannelId \in DOMAIN channels'
    /\ \E m \in channels'[currentChannelId].messages :
           /\ m.author = "Wendy"
           /\ m.content = content
           /\ channels'[currentChannelId].order =
                  Append(channels[currentChannelId].order, m.id)

\* C14: once a session has been rushed, its typeMessage call still hands
\* the characters to the per-character callback one by one in order, and
\* when the session completes without abort the full text is committed as
\* a message.
C14_RushNeverTruncates ==
    [][typing.rushed =>
           /\ (typing.sid \in DOMAIN loops /\ typing.sid \in DOMAIN loops') =>
                  loops'[typing.sid].i \in {loops[typing.sid].i, loops[typing.sid].i + 1}
           /\ CompletesNaturally => CommitsMessage(typing.text)]_vars

\* this step is the delivery of a successful tool result that makes the
\* StateMachine dispatch the send_message transition of the pending message
SendMessageArrives ==
    /\ pendingSendMessage.pending
    /\ \E p \in Inputs :
           Becomes(Delivered(Transition(
               [S EXCEPT !.pendingSendMessage = NoPendingSend],
               "send_message", SendData(pendingSendMessage.text), p)))

\* C15: a send_message transition that arrives while a typing session is
\* active is not appended to the pending list.
C15_SendMessageNotDeferred ==
    [][(typing.active /\ SendMessageArrives) =>
           pendingTransitions' = pendingTransitions]_vars

\* the ids of the keystrokes the controller holds: queued or in flight
HeldIds == QueueIds(keypressQueue) \cup ({currentKeypress.id} \ {0})
HeldIdsNext == QueueIds(keypressQueue') \cup ({currentKeypress'.id} \ {0})

\* C16: clearQueue() empties the queue and drops the keystroke in flight,
\* in whatever phase, without a callback; a callback only ever fires for the
\* keystroke in flight and a dropped keystroke never comes back, so none
\* fires later for a discarded keystroke; a second clearQueue(), or one on
\* an idle controller, changes nothing.
C16_ClearQueueDiscards ==
    /\ [](/\ ClearQueue(ClearQueue(S)) = ClearQueue(S)
          /\ ~TCIsTyping(S) => ClearQueue(S) = S)
    /\ [][/\ (clears' # clears) =>
                 /\ keypressQueue' = <<>>
                 /\ currentKeypress' = NoKeypress
                 /\ pressed' = pressed
          /\ (pressed' # pressed) =>
                 /\ currentKeypress.id # 0
                 /\ pressed' = Append(pressed, <<currentKeypress.id, currentKeypress.char>>)
          /\ HeldIdsNext \subseteq HeldIds \cup {nextKeyId}]_vars

\* the controller is idle after one clearQueue() and no lock, some
\* keystroke was pressed and some enqueued keystroke never was
C16_Witness ==
    /\ clears = 1
    /\ locks = 0
    /\ ~TCIsTyping(S)
    /\ Len(pressed) >= 1
    /\ Len(pressed) < nextKeyId - 1

\* C17: a mouse sequence or a typing burst starts only when the typing mode
\* is none; a started mouse sequence stays pending until its final timeout,
\* which releases the left-arm lock and the mouse tracking and leaves the
\* mode none, or random for the editing sequence that hands over to random
\* typing; a burst's end timeout never leaves the mode at burst; the left arm
\* is locked only while a mouse sequence is past its first timeout.
ChoreoStarts ==
    /\ Len(choreos') = Len(choreos) + 1
    /\ \E b \in BOOLEAN : choreos' = Append(choreos, [thenType |-> b, step |-> 2])
    /\ currentTypingMode' = "burst"

ChoreoCompletes(modeAfter(_)) ==
    \E k \in DOMAIN choreos :
        /\ choreos[k].step = 5
        /\ choreos' = [i \in 1..(Len(choreos) - 1) |->
                           IF i < k THEN choreos[i] ELSE choreos[i + 1]]
        /\ ~leftArmLocked' /\ ~isTrackingMouse'
        /\ currentTypingMode' = modeAfter(choreos[k].thenType)

HandsOver(thenType) == IF thenType THEN "random" ELSE "none"
AlwaysNone(thenType) == "none"

StartGuards ==
    (currentTypingMode # "none" \/ inInitialLoadPeriod) =>
        \A p \in Inputs, b \in BOOLEAN :
            /\ DoMouseAndLeftHandKeys(S, b, p.travel) = S
            /\ DoTypingBurst(S, p.numKeys) = S

LockHeldByChoreo ==
    (leftArmLocked \/ isTrackingMouse) => \E k \in DOMAIN choreos : choreos[k].step >= 3

MaxLogReceives == 2
MaxLogAdds == 2
MaxLogClock == 1
MaxLogSessions == 1

\* the agent's messages in the log of the current channel
WendyEntries(s) ==
    IF s.currentChannelId \in DOMAIN s.channels
    THEN {i \in DOMAIN s.channels[s.currentChannelId].order :
              "message_id" \notin DOMAIN s.channels[s.currentChannelId].order[i]
              /\ s.channels[s.currentChannelId].order[i].author = "wendy"}
    ELSE {}

\* n messages of one author with the timestamps from, from + 1, ...
Batch(from, n) ==
    [i \in 1..n |-> [author |-> "user", content |-> <<"h", "i">>,
                     timestamp |-> from + i - 1]]

\* two messages that differ only after their twentieth character
LongContent(last) == [i \in 1..21 |-> IF i = 21 THEN last ELSE "x"]
Colliding ==
    <<[author |-> "user", content |-> LongContent("y"), timestamp |-> 1],
      [author |-> "user", content |-> LongContent("z"), timestamp |-> 1]>>

\* messages that carry a message_id, as the bot's check_messages output does
WithMessageIds ==
    <<[author |-> "user", content |-> <<"h", "i">>, timestamp |-> 1, message_id |-> 7],
      [author |-> "user", content |-> <<"h", "i">>, timestamp |-> 1, message_id |-> 8],
      [author |-> "user", content |-> <<"h", "i">>, timestamp |-> 1, message_id |-> 0]>>

LogLists ==
    {Batch(1, MAX_MESSAGES - 1), Batch(MAX_MESSAGES, 1), Batch(2, MAX_MESSAGES + 1),
     Colliding, WithMessageIds}

LogReceiveStep ==
    \E channelId \in ChannelIds, messages \in LogLists :
        /\ receives < MaxLogReceives
        /\ Becomes([ReceiveMessages(S, channelId, messages) EXCEPT !.receives = @ + 1])

LogAddWendyMessageStep ==
    \E text \in Texts :
        /\ Cardinality(WendyEntries(S)) < MaxLogAdds
        /\ Becomes(AddWendyMessage(S, text))

\* a millisecond passes
LogClockStep ==
    /\ clock < MaxLogClock
    /\ Becomes([S EXCEPT !.clock = @ + 1])

LogTypeMessageStep ==
    \E text \in Texts, p \in CMInputs :
        /\ nextSid <= MaxLogSessions
        /\ Becomes(TypeMessage(S, text, p.travel))

NextLog ==
    \/ LogReceiveStep
    \/ LogAddWendyMessageStep
    \/ LogClockStep
    \/ CMSetCurrentChannelStep
    \/ LogTypeMessageStep
    \/ CMResumeStep

SpecLog == Init /\ [][NextLog]_vars

(***************************************************************************)
(* The program under the quiet events and the Edit tool, whose state shows *)
(* an overlay on the monitor and starts the editing mouse sequence.        *)
(***************************************************************************)
OverlayTools == {"Edit"}

OverlayToolUseEventStep ==
    \E tool \in OverlayTools, p \in Inputs :
        /\ nEvents < MaxDeferEvents
        /\ Becomes(Delivered(ProcessEvent(S,
               [type |-> "tool_use", tool |-> tool, toolId |-> 0, text |-> <<>>,
                channel |-> NoChannel], p)))

NextOverlay ==
    \/ NextDefer
    \/ OverlayToolUseEventStep
    \/ ChoreoStep
    \/ IntervalStep

SpecOverlay == InitLive /\ [][NextOverlay]_vars

\* C18: no channel log ever holds more than 50 messages, and a message
\* leaves a log only when every message before it in the log leaves too.
Range(seq) == {seq[i] : i \in DOMAIN seq}

OldestEvicted(order, orderNext) ==
    \A i, j \in DOMAIN order :
        (i < j /\ order[j] \notin Range(orderNext)) => order[i] \notin Range(orderNext)

C18_LogCapped ==
    /\ [](\A c \in DOMAIN channels : Len(channels[c].order) <= MAX_MESSAGES)
    /\ [][\A c \in DOMAIN channels :
              /\ c \in DOMAIN channels'
              /\ OldestEvicted(channels[c].order, channels'[c].order)]_vars

\* the message array syncDisplay builds from a channel's data
DisplayedMessages(channel) ==
    LET Stored(id) == \E m \in channel.messages : m.id = id
    IN  SelectSeq(channel.order, Stored)

\* C19: a second receiveMessages call with the list of the call before it
\* leaves the size of the channel log as it is, whatever the list and the
\* log before.
LogSize(s, c) == Len(DisplayedMessages(s.channels[c]))

ReceivedTwice(s, c, messages) ==
    ReceiveMessages(ReceiveMessages(s, c, messages), c, messages)

OverlayStates == {"editing", "read_file", "terminal"}

C20_OverlayOnLeaving ==
    [][(currentState \in OverlayStates /\ overlay # "none"
            /\ currentState' # currentState)
           => IF currentState' \in OverlayStates
              THEN overlay' # "none"
              ELSE overlay' = "none"]_vars

(***************************************************************************)
(* The program under tool uses that carry the toolId of their content      *)
(* block and tool results that carry the tool_use_id of the tool use they  *)
(* answer; several tool uses may be awaiting their result.                 *)
(***************************************************************************)
MaxSendEvents == 4
SendTools == {"send_message", "check_messages"}
SendMessages == {<<"h">>, <<"i">>}

SendToolUseEventStep ==
    \E tool \in SendTools, text \in SendMessages, p \in Inputs :
        /\ nEvents < MaxSendEvents
        /\ Becomes([Delivered(ProcessEvent(S,
                        [type |-> "tool_use", tool |-> tool, toolId |-> nEvents + 1,
                         text |-> IF tool = "send_message" THEN text ELSE <<>>,
                         channel |-> IF tool = "check_messages" THEN "c1" ELSE NoChannel],
                        p))
                        EXCEPT !.openTools = @ \cup {nEvents + 1}])

SendToolResultEventStep ==
    \E id \in openTools, r \in ToolResults, p \in Inputs :
        /\ nEvents < MaxSendEvents
        /\ Becomes([Delivered(ProcessEvent(S,
                        [type |-> "tool_result", toolId |-> id, content |-> r.content,
                         isError |-> r.isError], p))
                        EXCEPT !.openTools = @ \ {id}])

NextSend ==
    \/ SendToolUseEventStep
    \/ SendToolResultEventStep
    \/ UpdateLogicStep
    \/ ResumeTypeMessageStep
    \/ ReplayStep
    \/ TickStep

SpecSend == InitLive /\ [][NextSend]_vars

(***************************************************************************)
(* The same, with the render tick running between the other steps.         *)
(***************************************************************************)
MaxFrames == 1

AnimateStep ==
    /\ frames < MaxFrames
    /\ Becomes(Animate(S))

NextRender == NextSend \/ AnimateStep

SpecRender == InitLive /\ [][NextRender]_vars

(***************************************************************************)
(* classifyEvent and the stream's 'event' listener on raw records.  The    *)
(* content of a message is absent (or null), a list of blocks, a string,   *)
(* or another value that cannot be iterated; a block is an object with a   *)
(* type or null.  A classification of type "TypeError" stands for the      *)
(* TypeError the JavaScript engine throws; "init" for system/init.         *)
(***************************************************************************)
Unknown == [type |-> "unknown"]
Thrown == [type |-> "TypeError"]

\* the classification of one block, or Unknown when the loop goes on
ClassifyAssistantBlock(block) ==
    CASE block.type = "null" -> Thrown
      [] block.type = "text" -> [type |-> "thinking"]
      [] block.type = "tool_use" ->
           [type |-> "tool_use",
            tool |-> IF block.name = "Bash" /\ block.command \in {"check_messages", "send_message"}
                     THEN block.command ELSE block.name,
            text |-> IF block.name = "Bash" /\ block.command = "send_message"
                     THEN block.text ELSE <<>>,
            channel |-> NoChannel,
            toolId |-> block.id]
      [] OTHER -> Unknown

ClassifyUserBlock(block) ==
    CASE block.type = "null" -> Thrown
      [] block.type = "tool_result" ->
           [type |-> "tool_result", content |-> block.content,
            isError |-> block.is_error, toolId |-> block.tool_use_id]
      [] OTHER -> Unknown

\* for (const block of content): the first block that returns or throws
RECURSIVE ClassifyBlocks(_, _)
ClassifyBlocks(blocks, role) ==
    IF blocks = <<>>
    THEN Unknown
    ELSE LET c == IF role = "assistant" THEN ClassifyAssistantBlock(Head(blocks))
                  ELSE ClassifyUserBlock(Head(blocks))
         IN  IF c # Unknown THEN c ELSE ClassifyBlocks(Tail(blocks), role)

\* event.message?.content || [], iterated
ClassifyContent(event, role) ==
    LET content == IF "message" \in DOMAIN event /\ "content" \in DOMAIN event.message
                   THEN event.message.content
                   ELSE [k |-> "absent"]
    IN  CASE content.k = "list" -> ClassifyBlocks(content.blocks, role)
          [] content.k = "object" -> Thrown
          [] OTHER -> Unknown

\* classifyEvent
ClassifyEvent(data) ==
    LET event == IF "event" \in DOMAIN data THEN data.event ELSE [none |-> TRUE]
        type == IF "type" \in DOMAIN event THEN event.type ELSE ""
    IN  CASE type = "system" ->
               IF "subtype" \in DOMAIN event /\ event.subtype = "init"
               THEN [type |-> "init"] ELSE [type |-> "system"]
          [] type = "result" -> [type |-> "result"]
          [] type = "assistant" -> ClassifyContent(event, "assistant")
          [] type = "user" -> ClassifyContent(event, "user")
          [] OTHER -> Unknown

\* the stream's 'event' listener: an exception ends it
OnStreamEvent(s, data, p) ==
    IF ClassifyEvent(data) = Thrown THEN s ELSE ProcessEvent(s, ClassifyEvent(data), p)

TextBlock == [type |-> "text"]
ToolUseBlock == [type |-> "tool_use", name |-> "Bash", command |-> "send_message",
                 text |-> <<"h">>, id |-> 1]
ToolResultBlock == [type |-> "tool_result", content |-> "success", is_error |-> FALSE,
                    tool_use_id |-> 1]
OtherBlock == [type |-> "image"]
NullBlock == [type |-> "null"]

Message(role, content) == [event |-> [type |-> role, message |-> [content |-> content]]]
List(blocks) == [k |-> "list", blocks |-> blocks]

\* records whose nested content is absent or malformed
MalformedRecords ==
    UNION {{[event |-> [type |-> role]],
            [event |-> [type |-> role, message |-> [none |-> TRUE]]],
            Message(role, [k |-> "absent"]),
            Message(role, List(<<>>)),
            Message(role, List(<<OtherBlock>>)),
            Message(role, List(<<OtherBlock, OtherBlock>>)),
            Message(role, List(<<NullBlock>>)),
            Message(role, [k |-> "string"]),
            Message(role, [k |-> "object"])} : role \in {"assistant", "user"}}
    \cup {[none |-> TRUE], [event |-> [none |-> TRUE]], [event |-> [type |-> "other"]]}

\* records with a text block and a tool-use block, in both orders
MixedRecords ==
    {Message("assistant", List(<<TextBlock, ToolUseBlock>>)),
     Message("assistant", List(<<ToolUseBlock, TextBlock>>)),
     Message("assistant", List(<<OtherBlock, ToolUseBlock, TextBlock>>))}

RawRecords ==
    MalformedRecords \cup MixedRecords \cup
    {[event |-> [type |-> "system", subtype |-> "init"]],
     [event |-> [type |-> "result", is_error |-> FALSE]],
     Message("assistant", List(<<TextBlock>>)),
     Message("assistant", List(<<ToolUseBlock>>)),
     Message("user", List(<<ToolResultBlock>>))}

MaxRawEvents == 4

RawEventStep ==
    \E data \in RawRecords, p \in Inputs :
        /\ nEvents < MaxRawEvents
        /\ Becomes(Delivered(OnStreamEvent(S, data, p)))

NextClassify ==
    \/ RawEventStep
    \/ UpdateLogicStep
    \/ ResumeTypeMessageStep
    \/ ReplayStep
    \/ TickStep
    \/ IdleTimeoutStep

SpecClassify == InitLive /\ [][NextClassify]_vars

(***************************************************************************)
(* Claims about the StateMachine                                           *)
(***************************************************************************)
\* C21: the idle timeout is pending exactly while the state machine is in
\* done, so any transition out of done has cancelled it; the state machine
\* goes to idle only from done, by the timeout, which is then no longer
\* pending; a transition to any other state leaves no timeout behind.
C21_IdleTimer ==
    /\ [](idleTimeout <=> state = "done")
    /\ [][/\ (state' = "idle" /\ state # "idle") =>
                 (state = "done" /\ idleTimeout /\ ~idleTimeout' /\ nEvents' = nEvents)
          /\ (state = "done" /\ nEvents' # nEvents /\ state' # "done") => ~idleTimeout'
          /\ (state = "done" /\ state' # "done" /\ nEvents' = nEvents) => state' = "idle"]_vars

\* the timeout has fired after a session that took three events
C21_Witness ==
    /\ state = "idle" /\ currentState = "idle" /\ ~idleTimeout
    /\ nEvents = 3 /\ lastProcessedSession = 2

\* C22: a send_message tool use makes no transition; a send_message
\* transition occurs only in the step that delivers the result of the
\* pending send_message tool use, and types the text of that tool use; every
\* tool result leaves no send_message pending.
SendTransitionOccurs ==
    /\ nEvents' # nEvents
    /\ \/ starts' = starts + 1
       \/ /\ Len(pendingTransitions') = Len(pendingTransitions) + 1
          /\ pendingTransitions'[Len(pendingTransitions')].to = "send_message"

C22_SendOnMatchingSuccess ==
    [][/\ (openTools \subseteq openTools' /\ openTools' # openTools) =>
             (state' = state \/ state' = "check_messages") /\ starts' = starts
       /\ SendTransitionOccurs =>
             /\ pendingSendMessage.pending
             /\ openTools' = openTools \ {pendingSendMessage.toolId}
             /\ pendingSendMessage.toolId \in openTools
             /\ state' = "send_message"
             /\ stateData' = SendData(pendingSendMessage.text)
       /\ (openTools' \subseteq openTools /\ openTools' # openTools) =>
             ~pendingSendMessage'.pending]_vars

\* C23: once isInitialLoad() is false it stays false, and it is true as long
\* as no session has completed; a send_message transition applied while it
\* is true adds the message to the log and starts no typing session.
SendApplied(text, p) ==
    ApplyTransition(S, [from |-> state, to |-> "send_message",
                        data |-> SendData(text), id |-> 0, sess |-> 0], p)

C23_InitialLoad ==
    /\ [](IsInitialLoad(S) =>
             \A text \in Messages, p \in Inputs :
                 /\ SendApplied(text, p).starts = starts
                 /\ ~SendApplied(text, p).typing.active
                 /\ LogLen(SendApplied(text, p)) = LogLen(S) + 1)
    /\ [][~IsInitialLoad(S) => lastProcessedSession' # -1]_vars
    /\ [](lastProcessedSession = -1 \/ lastProcessedSession >= 1)

\* C24: a render tick leaves the typing controller's queue, keypress in
\* flight, arm distances and locks, the typing session, the typing mode and
\* the list of pending transitions as they are; the logic tick is a
\* different step, and it does advance them.
AnimationState(s) ==
    <<s.keypressQueue, s.currentKeypress, s.leftArmDist, s.rightArmDist,
      s.leftArmLocked, s.rightArmLocked, s.typing, s.currentTypingMode,
      s.pendingTransitions>>

C24_RenderTickReadsOnly ==
    /\ [](AnimationState(Animate(S)) = AnimationState(S))
    /\ [][frames' # frames =>
              /\ AnimationState(S)' = AnimationState(S)
              /\ UNCHANGED <<pressed, loops, channels, replayTimers, state, currentState>>]_vars

\* a frame has been drawn while a message was being typed, a keystroke was
\* in flight and a transition was waiting
C24_Witness ==
    /\ frames = 1
    /\ typing.active /\ currentKeypress.id # 0
    /\ currentTypingMode = "message"
    /\ pendingTransitions # <<>>
    /\ UpdateLogic(S, MAX_DELTA, CHOOSE p \in Inputs : TRUE) # S

\* C25: a record whose nested content is absent or malformed is classified
\* as unknown and nothing is thrown; an unknown event leaves the state
\* machine's state, state data, pending send_message and idle timeout as
\* they are.
SMState(s) == <<s.state, s.stateData, s.pendingSendMessage, s.idleTimeout>>

C25_MalformedIsUnknown ==
    \A data \in MalformedRecords, p \in Inputs :
        /\ ClassifyEvent(data) = Unknown
        /\ SMState(ProcessEvent(S, Unknown, p)) = SMState(S)

\* C26: a record whose content list holds a text block and a tool-use
\* block is classified as its text block is, whatever the order of the
\* blocks.
C26_TextBlockFirst ==
    \A data \in MixedRecords, p \in Inputs :
        /\ ClassifyEvent(data) = ClassifyEvent(Message("assistant", List(<<TextBlock>>)))
        /\ OnStreamEvent(S, data, p)
               = OnStreamEvent(S, Message("assistant", List(<<TextBlock>>)), p)

(***************************************************************************)
(* Claims about characters with no key                                     *)
(***************************************************************************)
UnknownChars == Chars \ KeyboardKeys
Enqueued(id) == id < nextKeyId
UnknownPressed == \E i \in DOMAIN pressed : pressed[i][2] \in UnknownChars

\* C27: a character with no key is not dropped: typeCharacter of such a
\* character appends one keypress to the queue, aimed at the space bar (the
\* key and the hand of the space bar), and with no lock held the keypress
\* callback of every enqueued character, known or not, eventually fires.
C27_UnknownCharTyped ==
    /\ [](\A c \in UnknownChars :
              /\ KeyOf(c) = " "
              /\ TypeCharacter(S, c).keypressQueue =
                     Append(keypressQueue, [char |-> c, isLeftHand |-> IsLeftHand(" "),
                                            phase |-> "hover", id |-> nextKeyId]))
    /\ \A id \in 1..MaxKeyEnq : Enqueued(id) ~> (id \in PressedIds)

\* an unknown character typed between two known ones has had its callback,
\* after the first and before the last
C27_Witness ==
    /\ Len(pressed) = 3
    /\ pressed[2][2] \in UnknownChars
    /\ pressed[1][2] \in KeyboardKeys
    /\ pressed[3][2] \in KeyboardKeys
    /\ ~TCIsTyping(S)

(***************************************************************************)
(* The solver alone, posing an arm at one target after another             *)
(***************************************************************************)
MaxBoneLength == 4
MaxTargetDist == 12

Arms == {[upperLength |-> u, forearmLength |-> f] :
             u \in 2..MaxBoneLength, f \in 2..MaxBoneLength}
TargetDirs == {"forward", "down", "side"}
Targets == [dir : TargetDirs, dist : 0..MaxTargetDist]

IKSolveStep ==
    \E arm \in Arms, target \in Targets :
        Becomes([S EXCEPT !.joints = SolveTwoBoneIK(arm, target)])

NextIK == IKSolveStep

SpecIK == Init /\ [][NextIK]_vars

(***************************************************************************)
(* Claims about the IK solver                                              *)
(***************************************************************************)
FullLength(arm) == arm.upperLength + arm.forearmLength
AtFullLength(pose) ==
    SolveTwoBoneIK(pose.arm, [dir |-> pose.target.dir, dist |-> FullLength(pose.arm)])

\* C28: for a target farther from the shoulder than upperLength +
\* forearmLength the solver gives the shoulder and the elbow the rotations
\* it gives them for the target at the maximum reachable distance along the
\* same direction
C28_ClampedBeyondReach ==
    joints.target.dist > FullLength(joints.arm) =>
        /\ joints.shoulder = AtFullLength(joints).shoulder
        /\ joints.elbow = AtFullLength(joints).elbow

(***************************************************************************)
(* Claims about the order of deferred and live transitions                 *)
(***************************************************************************)
ReplayedNow == lastReplay'.id # lastReplay.id \/ lastReplay'.age < lastReplay.age

\* C29: a deferred transition is never applied after a transition that
\* arrived later than it: every replayed transition was deferred after the
\* last transition that was applied as it arrived (a live one or a waking)
C29_NoStaleReplay ==
    [][ReplayedNow => lastReplay'.id >= lastReplay.newer]_vars

Quiescent ==
    /\ ~typing.active
    /\ pendingTransitions = <<>>
    /\ replayTimers = <<>>

\* C30: whenever no typing session is active and no deferred transition is
\* pending or scheduled for replay, the state displayed by the orchestrator
\* is the state held by the StateMachine
C30_DisplayedIsMachineState ==
    Quiescent => currentState = state

(***************************************************************************)
(* Claims about the text typed on the monitor                              *)
(***************************************************************************)
IsPrefix(a, b) == Len(a) <= Len(b) /\ SubSeq(b, 1, Len(a)) = a

\* C31: while a typing session for a text is in progress, the text shown
\* as typed on the monitor is a prefix of that text
C31_TypedIsPrefix ==
    (typing.active /\ monitorTyping.showing) =>
        IsPrefix(monitorTyping.visibleText, typing.text)

(***************************************************************************)
(* Claims about the fate of deferred transitions                           *)
(***************************************************************************)
DeferredLeftBehind == pendingTransitions # <<>> /\ ~typing.active

\* C32: every deferred transition is eventually applied or flushed: the
\* pending list does not stay non-empty forever with no typing session
\* active while the logic tick keeps running
C32_DeferredEventuallyHandled == []<>(~DeferredLeftBehind)

(***************************************************************************)
(* Claims about locked hands                                               *)
(***************************************************************************)
CallbackFires == Len(pressed') > Len(pressed)

\* C33: while a hand is locked the keypress callback never fires for a
\* keypress of that hand, a keypress that was already active when the lock
\* was taken included
C33_NoCallbackWhileLocked ==
    [][CallbackFires => ~HandLocked(S, currentKeypress)]_vars

(***************************************************************************)
(* Claims about the typing modes and their intervals                       *)
(***************************************************************************)
\* C34: random busy typing runs only while the displayed state is editing
C34_RandomOnlyWhileEditing ==
    currentTypingMode = "random" => currentState = "editing"

LiveIntervals == DOMAIN intervals

\* C35: typing intervals never overlap: at most one interval timer is live,
\* and the tracked interval is the one that is running, so that clearing
\* the tracked interval stops it
C35_OneTrackedInterval ==
    /\ Cardinality(LiveIntervals) <= 1
    /\ LiveIntervals # {} => LiveIntervals = {typingModeInterval}

(***************************************************************************)
(* Claims about the consistency of a channel's log                         *)
(***************************************************************************)
NoDuplicates(seq) == \A i, j \in DOMAIN seq : seq[i] = seq[j] => i = j
MessageIds(channel) == {m.id : m \in channel.messages}

\* C36: each channel log stays consistent: the order list holds every id
\* at most once, and the ids of the order list are exactly the keys of the
\* message map
C36_LogConsistent ==
    \A c \in DOMAIN channels :
        /\ NoDuplicates(channels[c].order)
        /\ Range(channels[c].order) = MessageIds(channels[c])

(***************************************************************************)
(* Claims about the overlay and the displayed state                        *)
(***************************************************************************)
\* C37: if the monitor shows an overlay (diff, file or terminal) then the
\* displayed state is one of editing, read_file and terminal
C37_OverlayOnlyInOverlayStates ==
    overlay # "none" => currentState \in OverlayStates

(***************************************************************************)
(* Claims about the lifetime of a pending send_message                     *)
(***************************************************************************)
\* C38: a pending send_message is consumed only within its own session and
\* tool call: a tool result that arrives after a later tool use, a done or
\* a waking never triggers a send_message transition with the message
C38_PendingSendNotConsumedLate ==
    [][SendTransitionOccurs => ~pendingSendMessage.superseded]_vars

(***************************************************************************)
(* Claims about the start and end callbacks                                *)
(***************************************************************************)
StartCallback == starts' = starts + 1
EndCallback == ends' = ends + 1

\* C39: the start and end callbacks of the ChatManager strictly alternate:
\* a start callback comes only when every earlier start has had its end, an
\* end callback only when one start is waiting for it; the ends never
\* outnumber the starts and they are equal whenever no session is active
C39_CallbacksAlternate ==
    /\ [](ends <= starts /\ (~typing.active => ends = starts))
    /\ [][/\ starts' = starts \/ StartCallback
          /\ ends' = ends \/ EndCallback
          /\ StartCallback => (ends = starts /\ ends' = ends)
          /\ EndCallback => (starts = ends + 1 /\ starts' = starts)]_vars

\* a session ended by abortTyping or reset and a later one ended by
\* finishTyping, with the typing loops of both gone
C39_Witness ==
    /\ abortedSids = {1}
    /\ finishedSids = {2}
    /\ starts = 2 /\ ends = 2
    /\ DOMAIN loops = {}
    /\ ~typing.active

====
